---- MODULE Spec2Model ----
(***************************************************************************)
(* Node-graph engine of the blueprint editor (graph.js as restored by      *)
(* scripts/restore_graph.py): Pins, Nodes, Links, WiringController and     *)
(* GraphController.                                                        *)
(*                                                                         *)
(* Representation                                                          *)
(*   - the Maps nodes and links are sequences without repeated keys; the  *)
(*     Set selectedNodes is a set, and a loop over it may visit its        *)
(*     members in any order (the program visits them in the order the      *)
(*     user selected them);                                                *)
(*   - a full pin identifier `${nodeId}-${localId}` is the record          *)
(*     [node |-> nodeId, id |-> localId]; building it is pairing and       *)
(*     GraphController.findPinById's split is the projection;              *)
(*   - a Link holds its two pins by that identifier;                       *)
(*   - identifiers made by Utils.uniqueId are natural numbers.             *)
(***************************************************************************)
EXTENDS Integers, Sequences, FiniteSets, TLC

VARIABLES nodes, links, selectedNodes, lastOp, view

vars == <<nodes, links, selectedNodes, lastOp, view>>

\* ------------------------------------------------------------------ bounds
MaxNodes == 3
MaxLinks == 2
\* a duplication doubles the selection: where duplications are put on record,
\* graphs may grow this far
MaxDupNodes == 5
MaxDupLinks == 3
\* where every operation leaves its notifications or its name on record,
\* graphs stay this small
MaxNotifyNodes == 2
\* animation-frame callbacks that may be waiting at a time
MaxQueued == 2
\* pointer gestures: the nodes of a scene, the side of the canvas the nodes
\* stay on, and half the width and half the height of a node's rectangle
MaxSceneNodes == 3
CanvasSize == 20
HalfWidth == 2
HalfHeight == 1

\* ------------------------------------------------------- generic helpers
SeqToSet(s) == { s[i] : i \in 1..Len(s) }

FilterOut(s, x) == SelectSeq(s, LAMBDA y : y # x)

Contains(s, x) == \E i \in 1..Len(s) : s[i] = x

\* position of the entry with key id in a Map (keys are not repeated), 0 if none
IndexOfId(s, id) ==
    IF id \in 1..Len(s) /\ s[id].id = id THEN id
    ELSE IF \E i \in 1..Len(s) : s[i].id = id
    THEN CHOOSE i \in 1..Len(s) : s[i].id = id
    ELSE 0

\* Node.findPinById: position of the pin with the given identifier, 0 if none
IndexOfPin(pins, id) ==
    IF \E i \in 1..Len(pins) : pins[i].id = id
    THEN CHOOSE i \in 1..Len(pins) : pins[i].id = id
    ELSE 0

RemoveAt(s, i) == SubSeq(s, 1, i-1) \o SubSeq(s, i+1, Len(s))

\* Map.prototype.set: an existing key keeps its place, a new key is appended
MapSet(s, rec) ==
    LET i == IndexOfId(s, rec.id)
    IN IF i = 0 THEN Append(s, rec) ELSE [s EXCEPT ![i] = rec]

MapDelete(s, id) ==
    LET i == IndexOfId(s, id)
    IN IF i = 0 THEN s ELSE RemoveAt(s, i)

SmallestFree(used) == CHOOSE n \in 1..(Cardinality(used) + 1) :
                          n \notin used /\ \A m \in 1..(n-1) : m \in used

\* ---------------------------------------------------------------- catalog
Infinity == 1000000

PinSpec(id, type, dir) == [id |-> id, type |-> type, dir |-> dir, containerType |-> "single"]

\* VariableController.updateNodeLibrary: the Get_/Set_ templates of a variable
GetTemplate(name, type) ==
    [isSingleton |-> FALSE, title |-> "Get " \o name,
     pins |-> << PinSpec("val_out", type, "out") >>]

SetTemplate(name, type) ==
    [isSingleton |-> FALSE, title |-> "Set " \o name,
     pins |-> << PinSpec("exec_in", "exec", "in"), PinSpec("val_in", type, "in"),
                 PinSpec("exec_out", "exec", "out"), PinSpec("val_out", type, "out") >>]

\* the node-type catalog (nodeRegistry), an external collaborator
Registry ==
    [AddFloat |-> [isSingleton |-> FALSE, title |-> "Add",
                   pins |-> << PinSpec("a", "float", "in"), PinSpec("out", "float", "out") >>],
     PrintString |-> [isSingleton |-> FALSE, title |-> "Print String",
                      pins |-> << PinSpec("exec_in", "exec", "in"),
                                  PinSpec("in_str", "string", "in") >>],
     EventBeginPlay |-> [isSingleton |-> TRUE, title |-> "Event BeginPlay",
                         pins |-> << PinSpec("exec_out", "exec", "out") >>],
     Conv_FloatToString |-> [isSingleton |-> FALSE, title |-> "Float to String",
                             pins |-> << PinSpec("val_in", "float", "in"),
                                         PinSpec("val_out", "string", "out") >>],
     Conv_StringToFloat |-> [isSingleton |-> FALSE, title |-> "String to Float",
                             pins |-> << PinSpec("val_in", "string", "in") >>],
     Conv_BoolToString |-> [isSingleton |-> FALSE, title |-> "Bool to String",
                            pins |-> << PinSpec("val_in", "bool", "in"),
                                        PinSpec("val_out", "string", "out") >>],
     CustomEvent |-> [isSingleton |-> FALSE, title |-> "Custom Event",
                      pins |-> << PinSpec("exec_out", "exec", "out") >>],
     Get_v |-> GetTemplate("v", "string"),
     Set_v |-> SetTemplate("v", "string"),
     Get_w |-> GetTemplate("w", "string"),
     Set_w |-> SetTemplate("w", "string")]

HasTemplate(key) == key \in DOMAIN Registry

\* Utils.getConversionNodeKey(sourceType, destType): "" stands for null
getConversionNodeKey(src, dst) ==
    IF src = "float" /\ dst = "string" THEN "Conv_FloatToString"
    ELSE IF src = "string" /\ dst = "float" THEN "Conv_StringToFloat"
    ELSE IF src = "bool" /\ dst = "string" THEN "Conv_BoolToString"
    ELSE ""

VarNames == {"v", "w"}
GetKey(name) == IF name = "v" THEN "Get_v" ELSE "Get_w"
SetKey(name) == IF name = "v" THEN "Set_v" ELSE "Set_w"

\* ------------------------------------------------------------ Pin / Node
\* new Pin(node, spec): a pin starts without links
NewPin(p) == [id |-> p.id, type |-> p.type, dir |-> p.dir,
              containerType |-> p.containerType, links |-> <<>>]

\* new Node(id, nodeData, x, y, nodeKey, app)
NewNode(id, key, pinSpecs) ==
    [id |-> id, nodeKey |-> key,
     pins |-> [i \in 1..Len(pinSpecs) |-> NewPin(pinSpecs[i])]]

getMaxLinks(pin) == IF pin.dir = "in" /\ pin.type # "exec" THEN 1 ELSE Infinity
isConnected(pin) == Len(pin.links) > 0

PinRef(n, p) == [node |-> n, id |-> p]

\* GraphController.findPinById / Node.findPinById
HasPin(ns, ref) ==
    /\ IndexOfId(ns, ref.node) # 0
    /\ IndexOfPin(ns[IndexOfId(ns, ref.node)].pins, ref.id) # 0

findPinById(ns, ref) ==
    LET n == ns[IndexOfId(ns, ref.node)]
    IN n.pins[IndexOfPin(n.pins, ref.id)]

AllPinRefs(ns) ==
    UNION { { PinRef(ns[i].id, ns[i].pins[j].id) : j \in 1..Len(ns[i].pins) } : i \in 1..Len(ns) }

NodeIds(ns) == { ns[i].id : i \in 1..Len(ns) }
LinkIds(ls) == { ls[i].id : i \in 1..Len(ls) }

\* rewrite the links list of the pin object a link end refers to
SetPinLinks(ns, ref, newLinks) ==
    IF ~HasPin(ns, ref) THEN ns
    ELSE LET i == IndexOfId(ns, ref.node)
             j == IndexOfPin(ns[i].pins, ref.id)
         IN [ns EXCEPT ![i].pins[j].links = newLinks]

PushPinLink(ns, ref, linkId) ==
    IF ~HasPin(ns, ref) THEN ns
    ELSE SetPinLinks(ns, ref, Append(findPinById(ns, ref).links, linkId))

\* every identifier some part of the state still mentions
ReferencedLinkIds(g) ==
    LinkIds(g.links) \cup g.selectedLinks \cup
    UNION { UNION { SeqToSet(g.nodes[i].pins[j].links) : j \in 1..Len(g.nodes[i].pins) }
            : i \in 1..Len(g.nodes) }

ReferencedNodeIds(g) ==
    NodeIds(g.nodes) \cup g.sel
    \cup { g.links[i].startPin.node : i \in 1..Len(g.links) }
    \cup { g.links[i].endPin.node : i \in 1..Len(g.links) }

\* Utils.uniqueId: an identifier that was never handed out before.  g.oldN and
\* g.oldL hold the identifiers that existed when the running operation began.
uniqueNodeId(g) == SmallestFree(ReferencedNodeIds(g) \cup g.oldN)
uniqueLinkId(g) == SmallestFree(ReferencedLinkIds(g) \cup g.oldL)

\* what the details panel (this.app.details) shows: nothing, a node of the
\* graph, the value undefined, or a node object the graph no longer holds
NoDetails == [kind |-> "none", id |-> 0]
showNodeDetails(ns, id) ==
    IF IndexOfId(ns, id) = 0 THEN [kind |-> "undefined", id |-> 0]
    ELSE [kind |-> "node", id |-> id]

\* the graph as one value: the two controllers' collections, the selection,
\* the selected links, what the details panel shows, whether the running operation has thrown,
\* how often it has called markDirty and autoSave, and how many
\* animation-frame callbacks that call both it has requested
Graph ==
    LET g0 == [nodes |-> nodes, links |-> links, sel |-> selectedNodes,
               selectedLinks |-> view.selectedLinks, details |-> view.details,
               oldN |-> {}, oldL |-> {}, fault |-> FALSE,
               dirty |-> 0, saved |-> 0, later |-> 0,
               frames |-> <<>>, drawn |-> <<>>, wired |-> {}, detached |-> view.detached]
    IN [g0 EXCEPT !.oldN = ReferencedNodeIds(g0), !.oldL = ReferencedLinkIds(g0)]

\* this.app.compiler.markDirty(), this.app.persistence.autoSave()
markDirty(g) == [g EXCEPT !.dirty = @ + 1]
autoSave(g) == [g EXCEPT !.saved = @ + 1]

\* a requestAnimationFrame that calls its callback before it returns, and
\* draws nothing
requestAnimationFrameAtOnce(g, redraw, notify) ==
    [g EXCEPT !.drawn = @ \o redraw,
              !.saved = @ + (IF notify THEN 1 ELSE 0),
              !.dirty = @ + (IF notify THEN 1 ELSE 0)]

\* requestAnimationFrame(() => { redrawNodeWires(...); ... }): the callback
\* redraws the wires of the nodes redraw, in that order, and, if notify, calls
\* autoSave and markDirty; later counts the callbacks that notify
requestAnimationFrame(g, redraw, notify) ==
    [g EXCEPT !.later = @ + (IF notify THEN 1 ELSE 0),
              !.frames = Append(@, [redraw |-> redraw, notify |-> notify])]

\* ------------------------------------------------------ WiringController
findLinksByPinId(ls, ref) ==
    SelectSeq(ls, LAMBDA l : l.startPin = ref \/ l.endPin = ref)

findLinksByNodeId(ls, nodeId) ==
    SelectSeq(ls, LAMBDA l : l.startPin.node = nodeId \/ l.endPin.node = nodeId)

\* _addLink that forgets to push the identifier onto the end pin
_addLinkStartOnly(g, startPin, endPin) ==
    LET id == uniqueLinkId(g)
        link == [id |-> id, startPin |-> startPin, endPin |-> endPin]
    IN [g EXCEPT !.links = MapSet(g.links, link), !.nodes = PushPinLink(g.nodes, startPin, id)]

\* _addLink that stores the two pins the wrong way round
_addLinkReversed(g, startPin, endPin) ==
    LET id == uniqueLinkId(g)
        link == [id |-> id, startPin |-> endPin, endPin |-> startPin]
        ns1 == PushPinLink(g.nodes, startPin, id)
        ns2 == PushPinLink(ns1, endPin, id)
    IN [g EXCEPT !.links = MapSet(g.links, link), !.nodes = ns2]

_addLink(g, startPin, endPin) ==
    LET id == uniqueLinkId(g)
        link == [id |-> id, startPin |-> startPin, endPin |-> endPin]
        ns1 == PushPinLink(g.nodes, startPin, id)
        ns2 == PushPinLink(ns1, endPin, id)
    IN [g EXCEPT !.links = MapSet(g.links, link), !.nodes = ns2]

\* breakLinkById that leaves the end pin's list as it is
breakLinkByIdStartOnly(g, linkId) ==
    LET i == IndexOfId(g.links, linkId)
    IN IF i = 0 THEN g
       ELSE LET link == g.links[i]
                ns1 == IF HasPin(g.nodes, link.startPin)
                       THEN SetPinLinks(g.nodes, link.startPin,
                                FilterOut(findPinById(g.nodes, link.startPin).links, linkId))
                       ELSE g.nodes
            IN requestAnimationFrame([g EXCEPT !.nodes = ns1, !.links = MapDelete(g.links, linkId),
                                               !.selectedLinks = @ \ {linkId}],
                                     <<link.endPin.node, link.startPin.node>>, TRUE)

\* breakLinkById that requests its animation frame before it looks the link up
breakLinkByIdNotifying(g, linkId) ==
    LET i == IndexOfId(g.links, linkId)
    IN IF i = 0 THEN requestAnimationFrame(g, <<>>, TRUE)
       ELSE LET link == g.links[i]
                ns1 == IF HasPin(g.nodes, link.startPin)
                       THEN SetPinLinks(g.nodes, link.startPin,
                                FilterOut(findPinById(g.nodes, link.startPin).links, linkId))
                       ELSE g.nodes
                ns2 == IF HasPin(ns1, link.endPin)
                       THEN SetPinLinks(ns1, link.endPin,
                                FilterOut(findPinById(ns1, link.endPin).links, linkId))
                       ELSE ns1
            IN requestAnimationFrame([g EXCEPT !.nodes = ns2, !.links = MapDelete(g.links, linkId),
                                               !.selectedLinks = @ \ {linkId}],
                                     <<link.endPin.node, link.startPin.node>>, TRUE)

breakLinkById(g, linkId) ==
    LET i == IndexOfId(g.links, linkId)
    IN IF i = 0 THEN g
       ELSE LET link == g.links[i]
                ns1 == IF HasPin(g.nodes, link.startPin)
                       THEN SetPinLinks(g.nodes, link.startPin,
                                FilterOut(findPinById(g.nodes, link.startPin).links, linkId))
                       ELSE g.nodes
                ns2 == IF HasPin(ns1, link.endPin)
                       THEN SetPinLinks(ns1, link.endPin,
                                FilterOut(findPinById(ns1, link.endPin).links, linkId))
                       ELSE ns1
            IN requestAnimationFrame([g EXCEPT !.nodes = ns2, !.links = MapDelete(g.links, linkId),
                                               !.selectedLinks = @ \ {linkId}],
                                     <<link.endPin.node, link.startPin.node>>, TRUE)

RECURSIVE BreakAll(_, _)
BreakAll(g, ls) ==
    IF ls = <<>> THEN g ELSE BreakAll(breakLinkById(g, Head(ls).id), Tail(ls))

breakPinLinks(g, ref) == BreakAll(g, findLinksByPinId(g.links, ref))

clearLinkSelection(g) == [g EXCEPT !.selectedLinks = {}]

\* ------------------------------------------------------- drawing the wires
\* pin.element is set and pin.element.isConnected: the pin is a pin of a node
\* of the graph whose element is in the document.  detached holds the nodes
\* whose element is not.
HasElement(g, ref) == HasPin(g.nodes, ref) /\ ref.node \notin g.detached

\* a drawWire that draws whatever it is given
drawWireAlways(g, link) == [g EXCEPT !.wired = @ \cup {link.id}]

\* drawWire: wired holds the links a path was drawn for
drawWire(g, link) ==
    IF ~HasElement(g, link.startPin) \/ ~HasElement(g, link.endPin)
    THEN IF IndexOfId(g.links, link.id) # 0 THEN breakLinkById(g, link.id) ELSE g
    ELSE [g EXCEPT !.wired = @ \cup {link.id}]

RECURSIVE DrawEach(_, _)
DrawEach(g, ls) ==
    IF ls = <<>> THEN g
    ELSE CHOOSE done \in { DrawEach(g1, Tail(ls)) : g1 \in {drawWire(g, Head(ls))} } : TRUE

\* GraphController.redrawNodeWires: drawn lists the nodes it was called for
redrawNodeWires(g, nodeId) ==
    DrawEach([g EXCEPT !.drawn = Append(@, nodeId)], findLinksByNodeId(g.links, nodeId))

\* GraphController.drawAllWires
drawAllWires(g) == DrawEach(g, g.links)

RECURSIVE RedrawEach(_, _)
RedrawEach(g, ids) ==
    IF ids = <<>> THEN g
    ELSE CHOOSE done \in { RedrawEach(g1, Tail(ids)) : g1 \in {redrawNodeWires(g, Head(ids))} } : TRUE

\* the browser calls one animation-frame callback
RunCallback(g, cb) ==
    LET g1 == RedrawEach(g, cb.redraw)
    IN IF cb.notify THEN markDirty(autoSave(g1)) ELSE g1

\* the browser calls the callbacks requested before the frame, in the order
\* they were requested; what they request is called in the next frame
RECURSIVE RunFrame(_, _)
RunFrame(g, queue) ==
    IF queue = <<>> THEN g
    ELSE CHOOSE done \in { RunFrame(g1, Tail(queue)) : g1 \in {RunCallback(g, Head(queue))} } : TRUE

\* --------------------------------------- GraphController: selection, nodes
clearSelection(g) == [g EXCEPT !.sel = {}, !.details = NoDetails]

\* a click on a wire: the nodes are deselected, the wire alone is selected, or
\* deselected if it was selected
toggleLinkSelection(g, linkId) ==
    LET g1 == clearSelection(g)
    IN IF linkId \notin g1.selectedLinks THEN [g1 EXCEPT !.selectedLinks = {linkId}]
       ELSE [g1 EXCEPT !.selectedLinks = @ \ {linkId}]

\* selectNode without its last statement, the update of the details panel
selectNodeSilently(g, nodeId, addToSelection, mode) ==
    IF IndexOfId(g.nodes, nodeId) = 0 THEN g
    ELSE LET g1 == IF ~addToSelection THEN clearSelection(g) ELSE g
             has == nodeId \in g1.sel
             add == g1.sel \cup {nodeId}
             del == g1.sel \ {nodeId}
         IN [g1 EXCEPT !.sel = CASE mode = "add" -> add
                                 [] mode = "remove" -> del
                                 [] mode = "toggle" -> IF has THEN del ELSE add
                                 [] mode = "new" -> add
                                 [] OTHER -> g1.sel]

\* selectNode that clears the selection only in mode 'new'
selectNodeClearingOnNew(g, nodeId, addToSelection, mode) ==
    IF IndexOfId(g.nodes, nodeId) = 0 THEN g
    ELSE LET g1 == IF ~addToSelection /\ mode = "new" THEN clearSelection(g) ELSE g
             has == nodeId \in g1.sel
             add == g1.sel \cup {nodeId}
             del == g1.sel \ {nodeId}
             s == CASE mode = "add" -> add
                    [] mode = "remove" -> del
                    [] mode = "toggle" -> IF has THEN del ELSE add
                    [] mode = "new" -> add
                    [] OTHER -> g1.sel
         IN [g1 EXCEPT !.sel = s,
                       !.details = IF Cardinality(s) = 1
                                   THEN showNodeDetails(g.nodes, CHOOSE x \in s : TRUE)
                                   ELSE NoDetails]

selectNode(g, nodeId, addToSelection, mode) ==
    IF IndexOfId(g.nodes, nodeId) = 0 THEN g
    ELSE LET g1 == IF ~addToSelection THEN clearSelection(g) ELSE g
             has == nodeId \in g1.sel
             add == g1.sel \cup {nodeId}
             del == g1.sel \ {nodeId}
             s == CASE mode = "add" -> add
                    [] mode = "remove" -> del
                    [] mode = "toggle" -> IF has THEN del ELSE add
                    [] mode = "new" -> add
                    [] OTHER -> g1.sel
         IN [g1 EXCEPT !.sel = s,
                       !.details = IF Cardinality(s) = 1
                                   THEN showNodeDetails(g.nodes, CHOOSE x \in s : TRUE)
                                   ELSE NoDetails]

ExistingNodeOfKey(ns, key) ==
    LET i == CHOOSE i \in 1..Len(ns) :
                 ns[i].nodeKey = key /\ \A j \in 1..(i-1) : ns[j].nodeKey # key
    IN ns[i]

\* addNode without the singleton test
addNodeAlways(g, nodeKey) ==
    IF ~HasTemplate(nodeKey) THEN [g |-> g, node |-> 0]
    ELSE LET id == uniqueNodeId(g)
         IN [g |-> markDirty([g EXCEPT !.nodes = MapSet(g.nodes, NewNode(id, nodeKey,
                                                                          Registry[nodeKey].pins))]),
             node |-> id]

\* addNode returns the graph and the new node's id; node = 0 stands for null
addNode(g, nodeKey) ==
    IF ~HasTemplate(nodeKey) THEN [g |-> g, node |-> 0]
    ELSE IF Registry[nodeKey].isSingleton /\ \E i \in 1..Len(g.nodes) : g.nodes[i].nodeKey = nodeKey
    THEN [g |-> selectNode(g, ExistingNodeOfKey(g.nodes, nodeKey).id, FALSE, "new"), node |-> 0]
    ELSE LET id == uniqueNodeId(g)
         IN [g |-> markDirty([g EXCEPT !.nodes = MapSet(g.nodes, NewNode(id, nodeKey,
                                                                          Registry[nodeKey].pins))]),
             node |-> id]

\* canConnect without the test that the two pins belong to different nodes
canConnectOnOneNode(pA, pB) ==
    IF ~pA.exists \/ ~pB.exists \/ pA.node = 0 \/ pB.node = 0 THEN FALSE
    ELSE IF pA.dir = pB.dir THEN FALSE
    ELSE LET startPin == IF pA.dir = "out" THEN pA ELSE pB
             endPin == IF pA.dir = "in" THEN pA ELSE pB
         IN IF startPin.containerType # endPin.containerType THEN FALSE
            ELSE IF startPin.type = endPin.type THEN TRUE
            ELSE getConversionNodeKey(startPin.type, endPin.type) # ""

\* canConnect that looks the adapter up from the input pin's type to the output pin's
canConnectAdapterReversed(pA, pB) ==
    IF ~pA.exists \/ ~pB.exists \/ pA.node = 0 \/ pB.node = 0 THEN FALSE
    ELSE IF pA.node = pB.node THEN FALSE
    ELSE IF pA.dir = pB.dir THEN FALSE
    ELSE LET startPin == IF pA.dir = "out" THEN pA ELSE pB
             endPin == IF pA.dir = "in" THEN pA ELSE pB
         IN IF startPin.containerType # endPin.containerType THEN FALSE
            ELSE IF startPin.type = endPin.type THEN TRUE
            ELSE getConversionNodeKey(endPin.type, startPin.type) # ""

canConnect(pA, pB) ==
    IF ~pA.exists \/ ~pB.exists \/ pA.node = 0 \/ pB.node = 0 THEN FALSE
    ELSE IF pA.node = pB.node THEN FALSE
    ELSE IF pA.dir = pB.dir THEN FALSE
    ELSE LET startPin == IF pA.dir = "out" THEN pA ELSE pB
             endPin == IF pA.dir = "in" THEN pA ELSE pB
         IN IF startPin.containerType # endPin.containerType THEN FALSE
            ELSE IF startPin.type = endPin.type THEN TRUE
            ELSE IF startPin.type = "exec" /\ endPin.type = "exec" THEN TRUE
            ELSE getConversionNodeKey(startPin.type, endPin.type) # ""

\* a pin as canConnect reads it: the pin object or null, and its owning node
PinView(ns, ref) ==
    IF HasPin(ns, ref)
    THEN LET p == findPinById(ns, ref)
         IN [exists |-> TRUE, node |-> ref.node, dir |-> p.dir, type |-> p.type,
             containerType |-> p.containerType]
    ELSE [exists |-> FALSE, node |-> 0, dir |-> "in", type |-> "exec", containerType |-> "single"]

\* createConnection without the adapter branch
createConnectionNoAdapter(g, pinA, pinB) ==
    LET a == findPinById(g.nodes, pinA)
        startPin == IF a.dir = "out" THEN pinA ELSE pinB
        endPin == IF a.dir = "in" THEN pinA ELSE pinB
        e == findPinById(g.nodes, endPin)
        g1 == IF getMaxLinks(e) = 1 /\ isConnected(e) THEN breakPinLinks(g, endPin) ELSE g
    IN markDirty(autoSave(_addLink(g1, startPin, endPin)))

\* createConnection that takes its first argument for the start pin and adds
\* the link directly
createConnectionAsGiven(g, pinA, pinB) ==
    LET e == findPinById(g.nodes, pinB)
        g1 == IF getMaxLinks(e) = 1 /\ isConnected(e) THEN breakPinLinks(g, pinB) ELSE g
    IN markDirty(autoSave(requestAnimationFrame(_addLink(g1, pinA, pinB),
                                                <<pinB.node, pinA.node>>, FALSE)))

createConnection(g, pinA, pinB) ==
    LET a == findPinById(g.nodes, pinA)
        startPin == IF a.dir = "out" THEN pinA ELSE pinB
        endPin == IF a.dir = "in" THEN pinA ELSE pinB
        s == findPinById(g.nodes, startPin)
        e == findPinById(g.nodes, endPin)
        g1 == IF getMaxLinks(e) = 1 /\ isConnected(e) THEN breakPinLinks(g, endPin) ELSE g
        isExecPin == s.type = "exec" \/ e.type = "exec"
        typesMatch == s.type = e.type
        convKey == getConversionNodeKey(s.type, e.type)
        added == addNode(g1, convKey)
        convIn == PinRef(added.node, "val_in")
        convOut == PinRef(added.node, "val_out")
        direct(gx) == requestAnimationFrame(_addLink(gx, startPin, endPin),
                                            <<endPin.node, startPin.node>>, FALSE)
    IN markDirty(autoSave(
         IF ~isExecPin /\ ~typesMatch /\ convKey # ""
         THEN IF added.node # 0
              THEN IF HasPin(added.g.nodes, convIn) /\ HasPin(added.g.nodes, convOut)
                   THEN requestAnimationFrame(
                          _addLink(_addLink(added.g, startPin, convIn), convOut, endPin),
                          <<startPin.node, added.node, endPin.node>>, FALSE)
                   ELSE direct([added.g EXCEPT !.nodes = MapDelete(added.g.nodes, added.node)])
              ELSE direct(added.g)
         ELSE direct(g1)))

\* JavaScript throws a TypeError: the handler stops where it is
Throw(g) == [g EXCEPT !.fault = TRUE]

RECURSIVE BreakPins(_, _, _)
BreakPins(g, nodeId, pinIds) ==
    IF pinIds = <<>> THEN g
    ELSE BreakPins(breakPinLinks(g, PinRef(nodeId, Head(pinIds))), nodeId, Tail(pinIds))

\* deleteSelectedNodes' loop without the breakPinLinks calls
RECURSIVE DeleteEachKeepingLinks(_, _)
DeleteEachKeepingLinks(g, ids) ==
    IF ids = <<>> THEN g
    ELSE DeleteEachKeepingLinks([g EXCEPT !.nodes = MapDelete(g.nodes, Head(ids))], Tail(ids))

RECURSIVE DeleteEach(_, _)
DeleteEach(g, ids) ==
    IF ids = <<>> THEN g
    ELSE LET i == IndexOfId(g.nodes, Head(ids))
         IN IF i = 0 THEN DeleteEach(g, Tail(ids))
            ELSE LET node == g.nodes[i]
                     g1 == BreakPins(g, node.id, [j \in 1..Len(node.pins) |-> node.pins[j].id])
                 IN DeleteEach([g1 EXCEPT !.nodes = MapDelete(g1.nodes, node.id)], Tail(ids))

\* the nodes are removed one by one; the order does not change the outcome
RECURSIVE Ascending(_)
Ascending(S) ==
    IF S = {} THEN <<>>
    ELSE LET m == CHOOSE x \in S : \A y \in S : x <= y
         IN <<m>> \o Ascending(S \ {m})

deleteSelectedNodes(g) ==
    IF Cardinality(g.sel) = 0 THEN g
    ELSE markDirty(autoSave([DeleteEach(g, Ascending(g.sel)) EXCEPT !.sel = {},
                                                                 !.details = NoDetails]))

\* first loop of duplicateSelectedNodes: copy the nodes, map old pin ids to new
RECURSIVE DuplicateNodes(_, _, _, _)
DuplicateNodes(g, ids, oldToNewPinIds, newSelection) ==
    IF ids = <<>> THEN [g |-> g, map |-> oldToNewPinIds, newSelection |-> newSelection]
    ELSE LET i == IndexOfId(g.nodes, Head(ids))
         IN IF i = 0 THEN DuplicateNodes(g, Tail(ids), oldToNewPinIds, newSelection)
            ELSE LET oldNode == g.nodes[i]
                     added == addNode(g, oldNode.nodeKey)
                     newNode == added.g.nodes[IndexOfId(added.g.nodes, added.node)]
                 IN IF added.node = 0
                    THEN [g |-> Throw(added.g), map |-> oldToNewPinIds, newSelection |-> newSelection]
                    ELSE IF Len(oldNode.pins) > Len(newNode.pins)
                    THEN [g |-> Throw(added.g), map |-> oldToNewPinIds,
                          newSelection |-> Append(newSelection, added.node)]
                    ELSE DuplicateNodes(added.g, Tail(ids),
                            oldToNewPinIds \cup
                              { <<PinRef(oldNode.id, oldNode.pins[j].id),
                                  PinRef(newNode.id, newNode.pins[j].id)>> : j \in 1..Len(oldNode.pins) },
                            Append(newSelection, added.node))

MapHas(map, k) == \E pr \in map : pr[1] = k
MapGet(map, k) == (CHOOSE pr \in map : pr[1] = k)[2]

\* second loop: the links map is iterated while createConnection appends to it
RECURSIVE DuplicateLinks(_, _, _)
DuplicateLinks(g, i, map) ==
    IF i > Len(g.links) THEN g
    ELSE LET link == g.links[i]
             startNodeIsSelected == link.startPin.node \in g.sel
             endNodeIsSelected == link.endPin.node \in g.sel
         IN IF startNodeIsSelected /\ endNodeIsSelected
               /\ MapHas(map, link.startPin) /\ MapHas(map, link.endPin)
               /\ HasPin(g.nodes, MapGet(map, link.startPin))
               /\ HasPin(g.nodes, MapGet(map, link.endPin))
            THEN DuplicateLinks(createConnection(g, MapGet(map, link.startPin),
                                                 MapGet(map, link.endPin)), i + 1, map)
            ELSE DuplicateLinks(g, i + 1, map)

RECURSIVE SelectEach(_, _)
SelectEach(g, ids) ==
    IF ids = <<>> THEN g ELSE SelectEach(selectNode(g, Head(ids), TRUE, "add"), Tail(ids))

\* order: the selection in the order its members were selected
duplicateSelectedNodes(g, order) ==
    IF Cardinality(g.sel) = 0 THEN Throw(g)
    ELSE LET d == DuplicateNodes(g, order \o Ascending(g.sel \ SeqToSet(order)), {}, <<>>)
         IN IF d.g.fault THEN d.g
            ELSE autoSave(SelectEach(clearSelection(clearLinkSelection(DuplicateLinks(d.g, 1, d.map))),
                                     d.newSelection))

synchronizeNodeWithTemplate(node) ==
    IF ~HasTemplate(node.nodeKey) THEN node
    ELSE LET tpins == Registry[node.nodeKey].pins
         IN [node EXCEPT !.pins =
               [k \in 1..Len(tpins) |->
                  LET j == IndexOfPin(node.pins, tpins[k].id)
                  IN IF j # 0 THEN [NewPin(tpins[k]) EXCEPT !.links = node.pins[j].links]
                     ELSE NewPin(tpins[k])]]

updateVariableNodes(g, oldName, newName) ==
    [g EXCEPT !.nodes =
        [i \in 1..Len(g.nodes) |->
           LET node == g.nodes[i]
           IN IF node.nodeKey = GetKey(oldName) \/ node.nodeKey = SetKey(oldName)
              THEN synchronizeNodeWithTemplate(
                     [node EXCEPT !.nodeKey = IF node.nodeKey = GetKey(oldName)
                                              THEN GetKey(newName) ELSE SetKey(newName)])
              ELSE node]]

promotePinToVariable(g, pin, varName) ==
    LET p == findPinById(g.nodes, pin)
        nodeToSpawnKey == IF p.dir = "in" THEN GetKey(varName) ELSE SetKey(varName)
        added == addNode(g, nodeToSpawnKey)
        targetPinName == IF p.dir = "in" THEN "val_out" ELSE "val_in"
        newPin == PinRef(added.node, targetPinName)
    IN autoSave(IF added.node # 0 /\ HasPin(added.g.nodes, newPin)
                THEN createConnection(added.g, pin, newPin)
                ELSE added.g)

\* the pins a node is loaded with: the template's, or for a CustomEvent the
\* saved ones (less the legacy delegate pin) when they are more
pinsToLoad(nodeData) ==
    LET template == Registry[nodeData.nodeKey]
        savedPins == IF "pins" \in DOMAIN nodeData
                     THEN SelectSeq(nodeData.pins, LAMBDA p : p.id # "delegate_out")
                     ELSE <<>>
    IN IF nodeData.nodeKey = "CustomEvent" /\ Len(savedPins) > Len(template.pins)
       THEN savedPins ELSE template.pins

RECURSIVE LoadNodes(_, _)
LoadNodes(ns, saved) ==
    IF saved = <<>> THEN ns
    ELSE LET nodeData == Head(saved)
         IN IF ~HasTemplate(nodeData.nodeKey) THEN LoadNodes(ns, Tail(saved))
            ELSE LoadNodes(MapSet(ns, NewNode(nodeData.id, nodeData.nodeKey,
                                              pinsToLoad(nodeData))), Tail(saved))

RECURSIVE LoadLinks(_, _)
LoadLinks(g, saved) ==
    IF saved = <<>> THEN g
    ELSE LET linkData == Head(saved)
         IN IF HasPin(g.nodes, linkData.startPinId) /\ HasPin(g.nodes, linkData.endPinId)
            THEN LET link == [id |-> linkData.id, startPin |-> linkData.startPinId,
                              endPin |-> linkData.endPinId]
                     ns1 == PushPinLink(g.nodes, link.startPin, link.id)
                     ns2 == PushPinLink(ns1, link.endPin, link.id)
                 IN LoadLinks([g EXCEPT !.links = MapSet(g.links, link), !.nodes = ns2], Tail(saved))
            ELSE LoadLinks(g, Tail(saved))

\* loadState that keeps the nodes and the links there are
loadStateOnTop(g, state) ==
    LoadLinks([g EXCEPT !.nodes = LoadNodes(g.nodes, state.nodes)], state.links)

\* the details panel is left alone: a node it shows is no longer in the graph
loadState(g, state) ==
    LoadLinks([g EXCEPT !.nodes = LoadNodes(<<>>, state.nodes), !.links = <<>>,
                        !.details = IF @.kind = "node" THEN [kind |-> "removed", id |-> 0] ELSE @],
              state.links)

\* ------------------------------------------------------------ inputs
\* keys the palette, the action menu and drag-and-drop hand to addNode
Palette == {"AddFloat", "PrintString", "EventBeginPlay", "NoSuchNode"}

\* (addToSelection, mode) as handleEditorMouseDown passes them for a plain,
\* a Ctrl- and a Shift-click on a node body
ClickModes == { <<FALSE, "new">>, <<TRUE, "toggle">>, <<TRUE, "add">> }

SavedNode(id, key) == [id |-> id, nodeKey |-> key]
SavedLink(id, s, e) == [id |-> id, startPinId |-> s, endPinId |-> e]

\* serialized graph states the persistence layer may hand to loadState
SavedStates ==
    << \* a graph as the editor saves it
       [nodes |-> << SavedNode(1, "Get_v"), SavedNode(2, "PrintString") >>,
        links |-> << SavedLink(1, PinRef(1, "val_out"), PinRef(2, "in_str")) >>],
       \* two nodes of a singleton template, a key the catalog does not know,
       \* and a link to a pin of the node that is skipped
       [nodes |-> << SavedNode(1, "EventBeginPlay"), SavedNode(2, "EventBeginPlay"),
                     SavedNode(3, "NoSuchNode") >>,
        links |-> << SavedLink(1, PinRef(1, "exec_out"), PinRef(3, "exec_in")) >>],
       \* two links into one input pin
       [nodes |-> << SavedNode(1, "AddFloat"), SavedNode(2, "AddFloat") >>,
        links |-> << SavedLink(1, PinRef(1, "out"), PinRef(2, "a")),
                     SavedLink(2, PinRef(1, "out"), PinRef(2, "a")) >>],
       \* a link saved with its two ends swapped
       [nodes |-> << SavedNode(1, "AddFloat"), SavedNode(2, "AddFloat") >>,
        links |-> << SavedLink(1, PinRef(1, "a"), PinRef(2, "out")) >>],
       \* two links saved under one identifier
       [nodes |-> << SavedNode(1, "AddFloat"), SavedNode(2, "AddFloat"), SavedNode(3, "AddFloat") >>,
        links |-> << SavedLink(1, PinRef(1, "out"), PinRef(2, "a")),
                     SavedLink(1, PinRef(1, "out"), PinRef(3, "a")) >> ],
       \* a chain of three nodes as the editor saves it
       [nodes |-> << SavedNode(1, "AddFloat"), SavedNode(2, "AddFloat"), SavedNode(3, "AddFloat") >>,
        links |-> << SavedLink(1, PinRef(1, "out"), PinRef(2, "a")),
                     SavedLink(2, PinRef(2, "out"), PinRef(3, "a")) >> ] >>

\* the orders in which the members of a set may have been inserted
Orders(S) == { f \in [1..Cardinality(S) -> S] : \A i, j \in 1..Cardinality(S) : f[i] = f[j] => i = j }

\* ------------------------------------------------- the operation record
NoPin == [node |-> 0, id |-> ""]

\* what the last operation was, with which arguments, and what it changed:
\* the link identifiers its argument pins a and b held when it was called,
\* the links and nodes that exist now and did not when it was called, and
\* those that existed then and are gone; sel is the nodes that were selected
\* when it was called; changed tells whether the node or the link collection,
\* the pins' lists of links included, differs from what it was
Op(name) == [op |-> name, a |-> NoPin, b |-> NoPin, key |-> "", node |-> 0, k |-> 0]

Effect(g, op) ==
    [op |-> op.op, a |-> op.a, b |-> op.b, key |-> op.key, node |-> op.node, k |-> op.k,
     watch |-> lastOp.watch,
     fault |-> g.fault,
     changed |-> (g.nodes # nodes \/ g.links # links),
     dirty |-> 0, saved |-> 0, later |-> 0, queued |-> 0, owed |-> {},
     sel |-> selectedNodes \cap NodeIds(nodes),
     heldA |-> IF HasPin(nodes, op.a) THEN SeqToSet(findPinById(nodes, op.a).links) ELSE {},
     heldB |-> IF HasPin(nodes, op.b) THEN SeqToSet(findPinById(nodes, op.b).links) ELSE {},
     addedLinks |-> { g.links[i] : i \in { i \in 1..Len(g.links) : g.links[i].id \notin g.oldL } },
     removedLinks |-> { links[i] : i \in { i \in 1..Len(links) : links[i].id \notin LinkIds(g.links) } },
     addedNodes |-> NodeIds(g.nodes) \ g.oldN,
     removedNodes |-> NodeIds(nodes) \ NodeIds(g.nodes)]

\* lastOp.watch names the operations that are put on record; after any other
\* operation the record is empty, or holds the operation's name alone if
\* "names" is in lastOp.watch.  With "notifications" in lastOp.watch every
\* operation leaves its name and its notifications: how often it called
\* markDirty (dirty) and autoSave (saved), how many animation-frame callbacks
\* that call both it has requested (later) and how many are waiting (queued), and which operations have changed
\* the graph with no markDirty call since (owed).
NoEffect(name) ==
    [op |-> name, a |-> NoPin, b |-> NoPin, key |-> "", node |-> 0, k |-> 0,
     watch |-> {}, fault |-> FALSE, changed |-> FALSE, sel |-> {},
     dirty |-> 0, saved |-> 0, later |-> 0, queued |-> 0, owed |-> {},
     heldA |-> {}, heldB |-> {},
     addedLinks |-> {}, removedLinks |-> {}, addedNodes |-> {}, removedNodes |-> {}]

\* ------------------------------------------------ identifiers up to renaming
\* Identifiers are opaque: the program only compares them for equality.  A
\* state therefore stands for every state that differs from it by a renaming
\* of node identifiers and of link identifiers, and each state is kept in one
\* form: nodes ordered by template key, links by their end points, and each
\* identifier replaced by its position in that order.
KeyOrder(key) ==
    CASE key = "AddFloat" -> 1
      [] key = "PrintString" -> 2
      [] key = "EventBeginPlay" -> 3
      [] key = "Conv_FloatToString" -> 4
      [] key = "Conv_StringToFloat" -> 5
      [] key = "Get_v" -> 6
      [] key = "Get_w" -> 7
      [] key = "Set_v" -> 8
      [] key = "Set_w" -> 9
      [] key = "Conv_BoolToString" -> 10
      [] key = "CustomEvent" -> 11
      [] OTHER -> 12

Canonical(g, e) ==
    LET live == NodeIds(g.nodes)
        N == ReferencedNodeIds(g) \cup e.addedNodes \cup e.removedNodes
                 \cup ({e.a.node, e.b.node, e.node, g.details.id} \ {0})
                 \cup { l.startPin.node : l \in e.removedLinks }
                 \cup { l.endPin.node : l \in e.removedLinks }
        \* sort code of a node: its key, then its identifier
        codesN == { (IF x \in live
                     THEN KeyOrder(g.nodes[IndexOfId(g.nodes, x)].nodeKey) * 100
                     ELSE 10000) + x : x \in N }
        rn(x) == IF x = 0 THEN 0
                 ELSE LET cx == CHOOSE c \in codesN : c % 100 = x
                      IN Cardinality({ c \in codesN : c <= cx })
        pinPos(ref) == IF HasPin(g.nodes, ref)
                       THEN IndexOfPin(g.nodes[IndexOfId(g.nodes, ref.node)].pins, ref.id)
                       ELSE 0
        liveL == LinkIds(g.links)
        L == ReferencedLinkIds(g) \cup { l.id : l \in e.removedLinks } \cup e.heldA \cup e.heldB
        \* sort code of a link: its start pin, its end pin, then its identifier
        codesL == { (IF x \in liveL
                     THEN LET l == g.links[IndexOfId(g.links, x)]
                          IN (((rn(l.startPin.node) * 10 + pinPos(l.startPin)) * 10
                                + rn(l.endPin.node)) * 10 + pinPos(l.endPin)) * 100
                     ELSE 10000000) + x : x \in L }
        rl(x) == LET cx == CHOOSE c \in codesL : c % 100 = x
                 IN Cardinality({ c \in codesL : c <= cx })
        pin(ref) == [node |-> rn(ref.node), id |-> ref.id]
        link(l) == [id |-> rl(l.id), startPin |-> pin(l.startPin), endPin |-> pin(l.endPin)]
        node(n) == [id |-> rn(n.id), nodeKey |-> n.nodeKey,
                    pins |-> [j \in 1..Len(n.pins) |->
                                [n.pins[j] EXCEPT !.links =
                                   [k \in 1..Len(n.pins[j].links) |-> rl(n.pins[j].links[k])]]]]
    IN [nodes |-> [i \in 1..Len(g.nodes) |->
                     node(g.nodes[CHOOSE j \in 1..Len(g.nodes) : rn(g.nodes[j].id) = i])],
        links |-> [i \in 1..Len(g.links) |->
                     link(g.links[CHOOSE j \in 1..Len(g.links) : rl(g.links[j].id) = i])],
        sel |-> { rn(x) : x \in g.sel },
        details |-> [g.details EXCEPT !.id = rn(@)],
        selectedLinks |-> { rl(x) : x \in g.selectedLinks },
        last |-> [e EXCEPT !.a = pin(e.a), !.b = pin(e.b), !.node = rn(e.node),
                           !.sel = { rn(x) : x \in e.sel },
                           !.heldA = { rl(x) : x \in e.heldA },
                           !.heldB = { rl(x) : x \in e.heldB },
                           !.addedLinks = { link(l) : l \in e.addedLinks },
                           !.removedLinks = { link(l) : l \in e.removedLinks },
                           !.addedNodes = { rn(x) : x \in e.addedNodes },
                           !.removedNodes = { rn(x) : x \in e.removedNodes }]]

\* ------------------------------------------------------------ actions
\* loadState keeps the selection, so identifiers of nodes long gone can pile up in it
WithinBounds(g) ==
    LET room == IF "duplicateSelectedNodes" \in lastOp.watch THEN MaxDupNodes
                ELSE IF {"notifications", "names"} \cap lastOp.watch # {} THEN MaxNotifyNodes
                ELSE MaxNodes
    IN /\ Len(g.nodes) <= room
       /\ Len(g.links) <= (IF "duplicateSelectedNodes" \in lastOp.watch THEN MaxDupLinks ELSE MaxLinks)
       /\ Cardinality(g.sel) <= room

\* what an operation that returned g leaves on record
Recorded(g, op) ==
    LET notifying == "notifications" \in lastOp.watch
        changed == g.nodes # nodes \/ g.links # links \/ op.op = "moveNodes"
        named == notifying \/ "names" \in lastOp.watch
        record == IF op.op \in lastOp.watch THEN Effect(g, op)
                  ELSE [NoEffect(IF named THEN op.op ELSE "unobserved") EXCEPT !.watch = lastOp.watch]
    IN IF notifying
       THEN [record EXCEPT
               !.dirty = g.dirty,
               !.saved = g.saved,
               !.later = g.later,
               !.queued = lastOp.queued + g.later,
               !.owed = IF g.dirty > 0 THEN {}
                        ELSE lastOp.owed \cup (IF changed THEN {op.op} ELSE {})]
       ELSE record

\* the state an operation that returned g leaves, identifiers in canonical form
Outcome(g, op) ==
    \* nothing to rename: same collections, and no identifier without a node
    IF /\ op.op \notin lastOp.watch
       /\ g.nodes = nodes
       /\ g.links = links
       /\ ReferencedNodeIds(g) = NodeIds(nodes)
       /\ g.selectedLinks \subseteq LinkIds(links)
    THEN [nodes |-> nodes, links |-> links, sel |-> g.sel,
          details |-> g.details, selectedLinks |-> g.selectedLinks,
          last |-> Recorded(g, op)]
    ELSE Canonical(g, Recorded(g, op))

Store(c) ==
    /\ nodes' = c.nodes
    /\ links' = c.links
    /\ selectedNodes' = c.sel
    /\ lastOp' = c.last
    /\ view' = [view EXCEPT !.details = c.details, !.selectedLinks = c.selectedLinks]

Settle(g, op) ==
    /\ WithinBounds(g)
    /\ "notifications" \in lastOp.watch => lastOp.queued + g.later <= MaxQueued
    /\ \E c \in {Outcome(g, op)} : Store(c)

\* the operation has run to its end and returned g
Commit(g, op) == \E done \in {g} : Settle(done, op)

\* GraphController's constructor: no gesture runs, no pin is held, the two
\* document listeners are not attached; the details panel is empty and no
\* link is selected (WiringController's constructor).  buttons is the set of mouse buttons that are
\* down, at the positions of the nodes (kept where gestures move them, in
\* the order of nodes), marquee the rectangle of the marquee element, frames
\* the animation-frame callbacks that wait for the next frame, detached the
\* nodes whose element is not in the document.
Constructed ==
    [isPanning |-> FALSE, isDraggingNode |-> FALSE, isWiring |-> FALSE,
     isRmbDown |-> FALSE, isMarqueeing |-> FALSE, activePin |-> NoPin,
     nodeDragOffsets |-> <<>>, marqueeStart |-> <<0, 0>>,
     marquee |-> [left |-> 0, right |-> 0, top |-> 0, bottom |-> 0],
     listening |-> FALSE, buttons |-> {}, at |-> <<>>,
     selectedLinks |-> {}, details |-> NoDetails, frames |-> <<>>, detached |-> {}]

Empty ==
    /\ nodes = <<>>
    /\ links = <<>>
    /\ selectedNodes = {}
    /\ view = Constructed

Watching(ops) == [NoEffect("unobserved") EXCEPT !.watch = ops]

\* every operation of the editor, none of them on record
Init == Empty /\ lastOp = Watching({})

\* handleDrop / palette / action menu: addNode(key, x, y)
AddNode ==
    \E key \in Palette :
        /\ Len(nodes) <= MaxNodes
        /\ LET r == addNode(Graph, key)
           IN Commit(r.g, [Op("addNode") EXCEPT !.key = key, !.node = r.node])

\* a click on a node body: selectNode(id, addToSelection, mode)
SelectNode ==
    \E id \in NodeIds(nodes), m \in ClickModes :
        /\ m[2] = "new" => id \notin selectedNodes
        /\ Commit(selectNode(Graph, id, m[1], m[2]), Op("selectNode"))

DeleteSelectedNodes ==
    /\ selectedNodes # {}
    /\ Commit(deleteSelectedNodes(Graph), Op("deleteSelectedNodes"))

\* selected identifiers without a node are skipped wherever they come in the order
DuplicateSelectedNodes ==
    \E order \in Orders(selectedNodes \cap NodeIds(nodes)) :
        Commit(duplicateSelectedNodes(Graph, order), Op("duplicateSelectedNodes"))

\* pointer-up of a wiring drag from pin a over pin b (handleGlobalMouseUp):
\* createConnection runs when canConnect allows it, and nothing happens otherwise
ConnectPins ==
    \E a \in AllPinRefs(nodes), b \in AllPinRefs(nodes) :
        /\ canConnect(PinView(nodes, a), PinView(nodes, b))
        /\ Commit(createConnection(Graph, a, b), [Op("createConnection") EXCEPT !.a = a, !.b = b])

\* Alt + pointer-down on a connected pin (handleEditorMouseDown)
BreakPinLinks ==
    \E ref \in AllPinRefs(nodes) :
        /\ isConnected(findPinById(nodes, ref))
        /\ Commit(breakPinLinks(Graph, ref), Op("breakPinLinks"))

\* deleteSelectedLinks on the selected wire, or drawWire's self-healing; k is
\* the number of links the identifier names when the call is made
BreakLinkById ==
    \E id \in LinkIds(links) \cup {0} :
        Commit(breakLinkById(Graph, id),
               [Op("breakLinkById") EXCEPT !.k = Len(SelectSeq(links, LAMBDA l : l.id = id))])

\* VariableController renames a variable that has nodes in the graph
UpdateVariableNodes ==
    \E oldName \in VarNames : \E newName \in VarNames \ {oldName} :
        /\ \E i \in 1..Len(nodes) : nodes[i].nodeKey \in {GetKey(oldName), SetKey(oldName)}
        /\ Commit(updateVariableNodes(Graph, oldName, newName), Op("updateVariableNodes"))

LoadState ==
    \E k \in 1..Len(SavedStates) :
        /\ Len(SavedStates[k].nodes) <= MaxNodes
        /\ Commit(loadState(Graph, SavedStates[k]), [Op("loadState") EXCEPT !.k = k])

Next ==
    \/ AddNode
    \/ SelectNode
    \/ DeleteSelectedNodes
    \/ DuplicateSelectedNodes
    \/ ConnectPins
    \/ BreakPinLinks
    \/ BreakLinkById
    \/ UpdateVariableNodes
    \/ LoadState

Spec == Init /\ [][Next]_vars

\* the wiring operations, with the last operation on record
InitWire == Empty /\ lastOp = Watching({"addNode", "createConnection", "breakLinkById", "loadState"})

NextWire ==
    \/ AddNode
    \/ ConnectPins
    \/ BreakLinkById
    \/ LoadState

SpecWire == InitWire /\ [][NextWire]_vars

\* every operation of the editor, with deleteSelectedNodes on record
InitDelete == Empty /\ lastOp = Watching({"deleteSelectedNodes"})

SpecDelete == InitDelete /\ [][Next]_vars

\* a saved CustomEvent node with a parameter pin added to the template's pin
SavedCustomStates ==
    << [nodes |-> << [id |-> 1, nodeKey |-> "CustomEvent",
                      pins |-> << PinSpec("exec_out", "exec", "out"),
                                  PinSpec("param_1", "float", "out") >>] >>,
        links |-> <<>>] >>

LoadCustomState ==
    \E k \in 1..Len(SavedCustomStates) :
        Commit(loadState(Graph, SavedCustomStates[k]), [Op("loadState") EXCEPT !.k = k])

\* saved graphs, selection and duplication, with duplicateSelectedNodes on record
InitDup == Empty /\ lastOp = Watching({"duplicateSelectedNodes"})

NextDup ==
    \/ LoadState
    \/ LoadCustomState
    \/ SelectNode
    \/ DuplicateSelectedNodes
    \/ DeleteSelectedNodes

SpecDup == InitDup /\ [][NextDup]_vars

\* ------------------------------------------------------ notifications
\* pointer-up that ends a drag of the selected nodes (handleGlobalMouseUp,
\* isDraggingNode): the nodes snap to the grid, then autoSave and markDirty
MoveNodes ==
    /\ selectedNodes \cap NodeIds(nodes) # {}
    /\ Commit(markDirty(autoSave(Graph)), Op("moveNodes"))

\* the browser runs the waiting animation-frame callbacks: each calls
\* autoSave and markDirty
AnimationFrame ==
    /\ lastOp.queued > 0
    /\ lastOp' = [NoEffect("animationFrame") EXCEPT
                    !.watch = lastOp.watch,
                    !.dirty = lastOp.queued,
                    !.saved = lastOp.queued]
    /\ UNCHANGED <<nodes, links, selectedNodes, view>>

\* every operation that changes the graph, with its notifications on record
InitNotify == Empty /\ lastOp = Watching({"notifications"})

NextNotify ==
    \/ AddNode
    \/ SelectNode
    \/ MoveNodes
    \/ DeleteSelectedNodes
    \/ DuplicateSelectedNodes
    \/ ConnectPins
    \/ BreakLinkById
    \/ UpdateVariableNodes
    \/ LoadState
    \/ AnimationFrame

SpecNotify == InitNotify /\ [][NextNotify]_vars

\* the browser does run a waiting animation-frame callback
SpecNotifyFair == SpecNotify /\ WF_vars(AnimationFrame)

\* ------------------------------------------------------ selection
SelectModes == {"new", "add", "remove", "toggle"}

\* selectNode(id, addToSelection, mode) with any arguments on a node of the
\* graph; the record keeps the mode as key and addToSelection as k (1: true)
SelectNodeWith ==
    \E id \in NodeIds(nodes), addToSelection \in BOOLEAN, mode \in SelectModes :
        Commit(selectNode(Graph, id, addToSelection, mode),
               [Op("selectNode") EXCEPT !.node = id, !.key = mode,
                                        !.k = IF addToSelection THEN 1 ELSE 0])

\* pointer-down on the canvas with no modifier key (handleEditorMouseDown)
ClearSelection == Commit(clearSelection(Graph), Op("clearSelection"))

\* a click on a wire
ToggleLinkSelection ==
    \E id \in LinkIds(links) :
        Commit(toggleLinkSelection(Graph, id), Op("toggleLinkSelection"))

\* the selection, its operations on record by name and selectNode in full
InitSelect == Empty /\ lastOp = Watching({"names", "selectNode"})

\* ------------------------------------------------------ pointer gestures
\* snapSelectedNodesToGrid's grid pitch
gridSize == 10

Plus(p, q) == <<p[1] + q[1], p[2] + q[2]>>
Minus(p, q) == <<p[1] - q[1], p[2] - q[2]>>

\* Math.round(v / gridSize) * gridSize that rounds towards minus infinity
FloorToGrid(v) == (v \div gridSize) * gridSize

\* Math.round(v / gridSize) * gridSize: Math.round rounds a half upwards
RoundToGrid(v) == ((2 * v + gridSize) \div (2 * gridSize)) * gridSize

snapSelectedNodesToGrid(g, at) ==
    [i \in 1..Len(at) |->
        IF g.nodes[i].id \in g.sel
        THEN <<RoundToGrid(at[i][1]), RoundToGrid(at[i][2])>>
        ELSE at[i]]

\* the rectangle two corners span (the marquee element's bounding rectangle)
Rect(p, q) ==
    [left |-> IF p[1] <= q[1] THEN p[1] ELSE q[1], right |-> IF p[1] <= q[1] THEN q[1] ELSE p[1],
     top |-> IF p[2] <= q[2] THEN p[2] ELSE q[2], bottom |-> IF p[2] <= q[2] THEN q[2] ELSE p[2]]

\* centre of a node's bounding rectangle: half its size from its corner
Center(p) == <<p[1] + HalfWidth, p[2] + HalfHeight>>

\* the test of selectNodesInRect with the bounds left out
InsideOpen(c, rect) ==
    /\ c[1] > rect.left /\ c[1] < rect.right
    /\ c[2] > rect.top /\ c[2] < rect.bottom

Inside(c, rect) ==
    /\ c[1] >= rect.left /\ c[1] <= rect.right
    /\ c[2] >= rect.top /\ c[2] <= rect.bottom

RECURSIVE SelectFrom(_, _, _, _, _)
SelectFrom(g, at, rect, mode, i) ==
    IF i > Len(g.nodes) THEN g
    ELSE SelectFrom(IF Inside(Center(at[i]), rect) THEN selectNode(g, g.nodes[i].id, TRUE, mode) ELSE g,
                    at, rect, mode, i + 1)

selectNodesInRect(g, at, rect, mode) == SelectFrom(g, at, rect, mode, 1)

\* the positions after an operation: a node that createConnection has added
\* stands where the caller says (midway between the two pin elements)
Placed(g, at, where) ==
    [i \in 1..Len(g.nodes) |-> IF i <= Len(at) THEN at[i] ELSE where]

\* handleEditorMouseDown(e); e.target is a wire, a pin, a node body or the canvas
handleEditorMouseDown(g0, v, e) ==
    LET g == clearLinkSelection(g0)
        v0 == [v EXCEPT !.isMarqueeing = FALSE]
        listen(w) == [w EXCEPT !.listening = TRUE]
    IN IF e.target.kind = "wire" THEN [g |-> g, v |-> v0]
       ELSE IF e.target.kind = "pin" /\ e.button = 0
       THEN LET activePin == IF HasPin(g.nodes, e.target.pin) THEN e.target.pin ELSE NoPin
                g1 == IF e.altKey /\ activePin # NoPin /\ isConnected(findPinById(g.nodes, activePin))
                      THEN breakPinLinks(g, activePin) ELSE g
            IN [g |-> g1, v |-> listen([v0 EXCEPT !.isWiring = TRUE, !.activePin = activePin])]
       ELSE IF e.target.kind \in {"pin", "node"} /\ e.button = 0
       THEN LET id == e.target.node
                mode == IF e.ctrlKey THEN "toggle" ELSE IF e.shiftKey THEN "add" ELSE "new"
                g1 == IF mode = "new" /\ id \notin g.sel THEN selectNode(g, id, FALSE, "new")
                      ELSE IF mode # "new" THEN selectNode(g, id, TRUE, mode)
                      ELSE g
                offsets == [n \in g1.sel \cap NodeIds(g1.nodes) |->
                              Minus(e.at, v.at[IndexOfId(g1.nodes, n)])]
            IN [g |-> g1, v |-> listen([v0 EXCEPT !.isDraggingNode = TRUE, !.nodeDragOffsets = offsets])]
       ELSE IF e.button = 1
       THEN [g |-> g, v |-> listen([v0 EXCEPT !.isPanning = TRUE])]
       ELSE IF e.button = 2
       THEN [g |-> g, v |-> listen([v0 EXCEPT !.isRmbDown = TRUE])]
       ELSE IF e.button = 0
       THEN [g |-> IF ~e.ctrlKey /\ ~e.shiftKey /\ ~e.altKey THEN clearSelection(g) ELSE g,
             v |-> listen([v0 EXCEPT !.isMarqueeing = TRUE, !.marqueeStart = e.at,
                                      !.marquee = Rect(e.at, e.at)])]
       ELSE [g |-> g, v |-> v0]

\* handleGlobalMouseMove(e): the pan, the drag of the selected nodes, the
\* ghost wire or the marquee, whichever comes first
handleGlobalMouseMove(g, v, e) ==
    IF v.isPanning \/ v.isRmbDown THEN v
    ELSE IF v.isDraggingNode
    THEN [v EXCEPT !.at = [i \in 1..Len(v.at) |->
                             IF g.nodes[i].id \in g.sel /\ g.nodes[i].id \in DOMAIN v.nodeDragOffsets
                             THEN Minus(e.at, v.nodeDragOffsets[g.nodes[i].id])
                             ELSE v.at[i]]]
    ELSE IF v.isWiring THEN v
    ELSE IF v.isMarqueeing THEN [v EXCEPT !.marquee = Rect(e.at, v.marqueeStart)]
    ELSE v

\* the mode the modifier keys of the pointer-up choose for the marquee
marqueeMode(e) ==
    IF e.shiftKey THEN "add" ELSE IF e.ctrlKey THEN "toggle" ELSE IF e.altKey THEN "remove" ELSE "new"

\* the pointer-up handler's state as it runs: the graph, the controller's
\* fields, whether createConnection was called, whether actionMenu.show was
\* and with which pin, and whether the handler has returned
Running(g, v) ==
    [g |-> g, v |-> [v EXCEPT !.listening = FALSE], connect |-> FALSE, menu |-> FALSE,
     menuPin |-> NoPin, returned |-> FALSE]

\* the end of the wiring block: the ghost wire goes, the pin is let go; mid is
\* where Utils.getPinPosition makes createConnection put an adapter node
Unwired(s, g, connect, mid) ==
    [s EXCEPT !.g = g, !.connect = connect,
              !.v = [s.v EXCEPT !.isWiring = FALSE, !.activePin = NoPin,
                                !.at = Placed(g, s.v.at, mid)]]

ShowMenu(s) ==
    [s EXCEPT !.menu = TRUE, !.menuPin = s.v.activePin, !.returned = TRUE,
              !.v = [s.v EXCEPT !.isWiring = FALSE]]

\* the wiring block that opens the menu whenever it makes no connection
wiringUpWithMenu(s, e, mid) ==
    LET over == e.target.kind = "pin" /\ HasPin(s.g.nodes, e.target.pin)
        held == s.v.activePin # NoPin
    IN IF ~s.v.isWiring THEN s
       ELSE IF over /\ held /\ canConnect(PinView(s.g.nodes, s.v.activePin),
                                          PinView(s.g.nodes, e.target.pin))
       THEN Unwired(s, createConnection(s.g, s.v.activePin, e.target.pin), TRUE, mid)
       ELSE IF held THEN ShowMenu(s)
       ELSE Unwired(s, s.g, FALSE, mid)

\* the wiring block without the canConnect test
wiringUpUnchecked(s, e, mid) ==
    LET over == e.target.kind = "pin"
        held == s.v.activePin # NoPin
    IN IF ~s.v.isWiring THEN s
       ELSE IF over /\ held
       THEN IF HasPin(s.g.nodes, e.target.pin)
            THEN Unwired(s, createConnection(s.g, s.v.activePin, e.target.pin), TRUE, mid)
            ELSE Unwired(s, s.g, FALSE, mid)
       ELSE IF held THEN ShowMenu(s)
       ELSE Unwired(s, s.g, FALSE, mid)

\* if (this.isWiring) { ... }
wiringUp(s, e, mid) ==
    LET over == e.target.kind = "pin"
        held == s.v.activePin # NoPin
    IN IF ~s.v.isWiring THEN s
       ELSE IF over /\ held
       THEN IF /\ HasPin(s.g.nodes, e.target.pin)
               /\ canConnect(PinView(s.g.nodes, s.v.activePin), PinView(s.g.nodes, e.target.pin))
            THEN Unwired(s, createConnection(s.g, s.v.activePin, e.target.pin), TRUE, mid)
            ELSE Unwired(s, s.g, FALSE, mid)
       ELSE IF held THEN ShowMenu(s)
       ELSE Unwired(s, s.g, FALSE, mid)

\* if (this.isDraggingNode) { ... }
draggingUp(s) ==
    IF ~s.v.isDraggingNode THEN s
    ELSE [s EXCEPT !.g = markDirty(autoSave(s.g)),
                   !.v = [s.v EXCEPT !.isDraggingNode = FALSE, !.nodeDragOffsets = <<>>,
                                     !.at = snapSelectedNodesToGrid(s.g, s.v.at)]]

\* if (this.isMarqueeing) { ... }
marqueeUp(s, e) ==
    IF ~s.v.isMarqueeing THEN s
    ELSE [s EXCEPT !.g = selectNodesInRect(s.g, s.v.at, s.v.marquee, marqueeMode(e)),
                   !.v = [s.v EXCEPT !.isMarqueeing = FALSE]]

\* if (this.isRmbDown) { ... }; this.isPanning = false; ...
releaseUp(s) == [s EXCEPT !.v = [s.v EXCEPT !.isRmbDown = FALSE, !.isPanning = FALSE]]

\* what follows the wiring block, unless that has returned
AfterWiring(s, e) == IF s.returned THEN s ELSE releaseUp(marqueeUp(draggingUp(s), e))

\* handleGlobalMouseUp that opens the menu whenever no connection is made
handleGlobalMouseUpWithMenu(g, v, e, mid) == AfterWiring(wiringUpWithMenu(Running(g, v), e, mid), e)

\* handleGlobalMouseUp that does not ask canConnect
handleGlobalMouseUpUnchecked(g, v, e, mid) == AfterWiring(wiringUpUnchecked(Running(g, v), e, mid), e)

\* handleGlobalMouseUp(e)
handleGlobalMouseUp(g, v, e, mid) == AfterWiring(wiringUp(Running(g, v), e, mid), e)

\* a handler that makes no connection and opens no menu
Quiet(r) == [g |-> r.g, v |-> r.v, connect |-> FALSE, menu |-> FALSE, menuPin |-> NoPin]

\* ------------------------------------------------ pointer events as inputs
Target(kind, pin, node) == [kind |-> kind, pin |-> pin, node |-> node]
Keys(alt, ctrl, shift) == [altKey |-> alt, ctrlKey |-> ctrl, shiftKey |-> shift]
NoKeys == Keys(FALSE, FALSE, FALSE)

\* lastOp.watch tells which gestures are looked at: with "positions" in it
\* the pointer moves between several points and goes down on node bodies
\* and on the canvas; without, it stays at one point and goes down on
\* anything with any button
Moving == "positions" \in lastOp.watch

\* where the pointer can be (client coordinates; no pan, no zoom)
Points == IF Moving THEN { <<0, 0>>, <<4, 15>>, <<16, 5>> } ELSE { <<0, 0>> }

Buttons == IF Moving THEN {0} ELSE {0, 1, 2}

PinTargets == IF Moving THEN {} ELSE { Target("pin", ref, ref.node) : ref \in AllPinRefs(nodes) }
NodeTargets == { Target("node", NoPin, id) : id \in NodeIds(nodes) }
Canvas == Target("canvas", NoPin, 0)
Wire == Target("wire", NoPin, 0)

\* the modifier keys a handler reads for its target; the others are up, and
\* so are those that choose a selection mode where the pointer stays put
KeysFor(target) ==
    CASE target.kind = "pin" -> { Keys(a, FALSE, FALSE) : a \in BOOLEAN }
      [] target.kind = "node" /\ Moving -> { Keys(FALSE, c, s) : c, s \in BOOLEAN }
      [] target.kind = "canvas" /\ Moving ->
             { NoKeys, Keys(TRUE, FALSE, FALSE), Keys(FALSE, TRUE, FALSE),
               Keys(FALSE, FALSE, TRUE), Keys(FALSE, TRUE, TRUE) }
      [] OTHER -> { NoKeys }

Event(target, button, keys, at) ==
    [target |-> target, button |-> button, altKey |-> keys.altKey, ctrlKey |-> keys.ctrlKey,
     shiftKey |-> keys.shiftKey, at |-> at]

\* the nodes stay on the visible part of the canvas
OnCanvas(at) ==
    \A i \in 1..Len(at) : at[i][1] \in 0..CanvasSize /\ at[i][2] \in 0..CanvasSize

\* the modifier keys that were held when the primary button last went down,
\* kept where the pointer moves
DownKeys(name, e) ==
    IF name = "mouseDown"
    THEN (IF Moving THEN Keys(e.altKey, e.ctrlKey, e.shiftKey) ELSE NoKeys)
    ELSE lastOp.down

\* what a pointer-up leaves on record: the event, whether the handler ran,
\* the selection, the positions and the gesture before it, whether the pin
\* held then and the pin under the pointer could be connected, whether the
\* nodes or the links have changed, the handler's notifications, whether it
\* called createConnection and whether it opened the action menu.  Of the
\* other pointer events the name is kept, and of all the keys held at the
\* last pointer-down.
Handled(name, e, ran, r) ==
    /\ Len(r.g.nodes) <= MaxSceneNodes
    /\ Len(r.g.links) <= MaxLinks
    /\ OnCanvas(r.v.at)
    /\ nodes' = r.g.nodes
    /\ links' = r.g.links
    /\ selectedNodes' = r.g.sel
    /\ view' = [r.v EXCEPT !.details = r.g.details, !.selectedLinks = r.g.selectedLinks]
    /\ lastOp' = IF name # "mouseUp"
                 THEN [op |-> name, watch |-> lastOp.watch, queued |-> 0, down |-> DownKeys(name, e)]
                 ELSE
                 [op |-> name, watch |-> lastOp.watch, queued |-> 0, e |-> e, ran |-> ran,
                  down |-> DownKeys(name, e),
                  before |-> [sel |-> selectedNodes, at |-> view.at,
                              isWiring |-> view.isWiring, activePin |-> view.activePin,
                              isDraggingNode |-> view.isDraggingNode,
                              isMarqueeing |-> view.isMarqueeing, marquee |-> view.marquee],
                  compatible |-> /\ e.target.kind = "pin"
                                 /\ canConnect(PinView(nodes, view.activePin), PinView(nodes, e.target.pin)),
                  changed |-> (r.g.nodes # nodes \/ r.g.links # links),
                  dirty |-> r.g.dirty, saved |-> r.g.saved, later |-> r.g.later,
                  connect |-> r.connect, menu |-> r.menu, menuPin |-> r.menuPin]

\* a button goes down over the editor; the target matters to the primary
\* button only
MouseDown ==
    \E target \in PinTargets \cup NodeTargets \cup {Canvas, Wire}, button \in Buttons \ view.buttons :
      \E keys \in (IF button = 0 THEN KeysFor(target) ELSE {NoKeys}), at \in Points :
        /\ button # 0 => target = Canvas
        /\
           LET e == Event(target, button, keys, at)
           IN Handled("mouseDown", e, TRUE,
                      Quiet(handleEditorMouseDown(Graph, [view EXCEPT !.buttons = @ \cup {button}], e)))

\* the pointer moves while the document listeners are attached
MouseMove ==
    \E at \in Points :
        LET e == Event(Canvas, 0, NoKeys, at)
        IN /\ view.listening
           /\ Handled("mouseMove", e, TRUE,
                      Quiet([g |-> Graph, v |-> handleGlobalMouseMove(Graph, view, e)]))

\* a button that is down goes up; the handler runs if it is still attached
MouseUp ==
    \E target \in PinTargets \cup {Canvas}, button \in view.buttons :
      \E keys \in (IF view.isMarqueeing /\ view.listening THEN KeysFor(Canvas) ELSE {NoKeys}),
         mid \in (IF view.isWiring /\ view.listening THEN Points ELSE {<<0, 0>>}) :
        LET e == Event(target, button, keys, <<0, 0>>)
            v == [view EXCEPT !.buttons = @ \ {button}]
        IN IF view.listening
           THEN Handled("mouseUp", e, TRUE, handleGlobalMouseUp(Graph, v, e, mid))
           ELSE Handled("mouseUp", e, FALSE, Quiet([g |-> Graph, v |-> v]))

\* the graph the gestures start from: two AddFloat nodes
Scene ==
    [nodes |-> << SavedNode(1, "AddFloat"), SavedNode(2, "AddFloat") >>,
     at |-> << <<0, 0>>, <<20, 10>> >>]

InitPointer ==
    /\ nodes = LoadNodes(<<>>, Scene.nodes)
    /\ links = <<>>
    /\ selectedNodes = {}
    /\ view = [Constructed EXCEPT !.at = Scene.at]
    /\ lastOp = Watching({})

NextPointer ==
    \/ MouseDown
    \/ MouseMove
    \/ MouseUp

SpecPointer == InitPointer /\ [][NextPointer]_vars

\* the graphs the drags and the marquees start from, nodes off the grid included
MovingScenes ==
    << [nodes |-> << SavedNode(1, "AddFloat"), SavedNode(2, "AddFloat") >>,
        at |-> << <<0, 0>>, <<14, 6>> >>] >>

InitMoving ==
    \E k \in 1..Len(MovingScenes) :
        /\ nodes = LoadNodes(<<>>, MovingScenes[k].nodes)
        /\ links = <<>>
        /\ selectedNodes = {}
        /\ view = [Constructed EXCEPT !.at = MovingScenes[k].at]
        /\ lastOp = Watching({"positions"})

SpecMoving == InitMoving /\ [][NextPointer]_vars

\* the end of a marquee around any of the nodes, with any mode: the nodes
\* inside stand at the one corner of the canvas, the others at the other
MarqueeSelect ==
    \E inside \in SUBSET (1..Len(nodes)), mode \in SelectModes :
        Commit(selectNodesInRect(Graph,
                                 [i \in 1..Len(nodes) |->
                                    IF i \in inside THEN <<0, 0>> ELSE <<CanvasSize, CanvasSize>>],
                                 Rect(<<0, 0>>, Center(<<0, 0>>)), mode),
               Op("selectNodesInRect"))

\* a saved graph of a single node
SavedSmallStates ==
    << [nodes |-> << SavedNode(1, "AddFloat") >>, links |-> <<>>] >>

LoadSmallState ==
    \E k \in 1..Len(SavedSmallStates) :
        Commit(loadState(Graph, SavedSmallStates[k]), [Op("loadState") EXCEPT !.k = k])

NextSelect ==
    \/ AddNode
    \/ LoadState
    \/ LoadSmallState
    \/ SelectNodeWith
    \/ ClearSelection
    \/ MarqueeSelect
    \/ DeleteSelectedNodes
    \/ DuplicateSelectedNodes
    \/ ToggleLinkSelection

SpecSelect == InitSelect /\ [][NextSelect]_vars

\* ------------------------------------------------------ calls that find nothing
\* a pin identifier that names no pin of the graph
UnknownPin == [node |-> 0, id |-> "no_such_pin"]

\* breakPinLinks(pinId) on any pin identifier, a pin without links and an
\* identifier without a pin included; k is the number of links that
\* reference the pin when the call is made
BreakPinLinksOf ==
    \E ref \in AllPinRefs(nodes) \cup {UnknownPin} :
        Commit(breakPinLinks(Graph, ref),
               [Op("breakPinLinks") EXCEPT !.a = ref, !.k = Len(findLinksByPinId(links, ref))])

\* addNode, breakLinkById and breakPinLinks on record with their notifications
InitNotFound == Empty /\ lastOp = Watching({"notifications", "addNode", "breakLinkById", "breakPinLinks"})

NextNotFound ==
    \/ AddNode
    \/ ConnectPins
    \/ BreakLinkById
    \/ BreakPinLinksOf
    \/ LoadState
    \/ AnimationFrame

SpecNotFound == InitNotFound /\ [][NextNotFound]_vars

\* ------------------------------------------------- wires and their redraw
\* The wires are drawn from the elements of the pins.  Here the graph keeps
\* the identifiers the program gave, the callbacks requested for the next
\* animation frame wait in view.frames, and view.detached holds the nodes whose
\* element has left the document.
MaxDrawNodes == 3
MaxDrawLinks == 2
MaxFrames == 2

DrawScene == << SavedNode(1, "AddFloat"), SavedNode(2, "PrintString") >>

\* the nodes connected since their wires were last redrawn
Redrawable(last) == IF last.op = "unobserved" THEN {} ELSE last.toRedraw

\* what a step of this part leaves behind: the graph with the callbacks it
\* requested behind those that wait, and on record the step, what was there
\* before it, the nodes it redrew the wires of, the links it drew, and the
\* nodes that createConnection connected and no step has redrawn the wires of
Drew(name, a, b, waiting, g) ==
    /\ Len(g.nodes) <= MaxDrawNodes
    /\ Len(g.links) <= MaxDrawLinks
    /\ nodes' = g.nodes
    /\ links' = g.links
    /\ selectedNodes' = g.sel
    /\ view' = [view EXCEPT !.details = g.details, !.selectedLinks = g.selectedLinks,
                            !.frames = waiting \o g.frames, !.detached = g.detached]
    /\ lastOp' = [op |-> name, watch |-> lastOp.watch, queued |-> 0, a |-> a, b |-> b,
                  before |-> [nodes |-> nodes, links |-> links, frames |-> view.frames,
                              detached |-> view.detached],
                  drawn |-> g.drawn, wired |-> g.wired, requested |-> g.frames,
                  toRedraw |-> IF name = "createConnection"
                               THEN Redrawable(lastOp) \cup {a.node, b.node}
                                        \cup (NodeIds(g.nodes) \ NodeIds(nodes))
                               ELSE Redrawable(lastOp) \ SeqToSet(g.drawn)]

\* a wire dragged from a pin and dropped on a pin it can connect to
ConnectAndDraw ==
    \E a \in AllPinRefs(nodes), b \in AllPinRefs(nodes) :
        /\ canConnect(PinView(nodes, a), PinView(nodes, b))
        /\ \E g \in {createConnection(Graph, a, b)} :
              /\ Len(view.frames) + Len(g.frames) <= MaxFrames
              /\ Drew("createConnection", a, b, view.frames, g)

\* deleteSelectedLinks on a selected wire
BreakAndDraw ==
    \E id \in LinkIds(links) :
        \E g \in {breakLinkById(Graph, id)} :
            /\ Len(view.frames) + Len(g.frames) <= MaxFrames
            /\ Drew("breakLinkById", NoPin, NoPin, view.frames, g)

\* the element of a node leaves the document while the node stays in the graph
RemoveElement ==
    \E id \in NodeIds(nodes) \ view.detached :
        \E g \in {[Graph EXCEPT !.detached = @ \cup {id}]} :
            Drew("removeElement", PinRef(id, ""), NoPin, view.frames, g)

\* drawAllWires, as after a pan, a zoom or a load
DrawAllWires ==
    /\ links # <<>>
    /\ \E g \in {drawAllWires(Graph)} : Drew("drawAllWires", NoPin, NoPin, view.frames, g)

\* the display refreshes: the browser calls the callbacks that wait
RunAnimationFrame ==
    /\ view.frames # <<>>
    /\ \E g0 \in {Graph} : \E g \in {RunFrame(g0, view.frames)} :
            Drew("animationFrame", NoPin, NoPin, <<>>, g)

InitDraw ==
    /\ nodes = LoadNodes(<<>>, DrawScene)
    /\ links = <<>>
    /\ selectedNodes = {}
    /\ view = Constructed
    /\ lastOp = Watching({})

NextDraw ==
    \/ ConnectAndDraw
    \/ BreakAndDraw
    \/ RemoveElement
    \/ DrawAllWires
    \/ RunAnimationFrame

SpecDraw == InitDraw /\ [][NextDraw]_vars

\* connecting and disconnecting while every element stays in the document
NextRedraw ==
    \/ ConnectAndDraw
    \/ BreakAndDraw
    \/ RunAnimationFrame

SpecRedraw == InitDraw /\ [][NextRedraw]_vars

\* the display keeps refreshing: a callback that waits is called in the end
SpecRedrawFair == SpecRedraw /\ WF_vars(RunAnimationFrame)

\* ------------------------------------------------ save and load, in full
\* Wherever the program only compares identifiers, the model above keeps them
\* as numbers and leaves out what no operation reads: positions and literal
\* values.  Saving and loading take identifiers apart and put them together
\* again as text, so here a graph is written out in full: identifiers as the
\* strings the program holds, each node with its position and its literals.
\* A link holds its two pins as objects: a pin object is told from another by
\* its identifier and by obj, which is 0 for a pin made with its node and 1
\* for a pin made by a resynchronization.

\* JavaScript's undefined
Undefined == "undefined"

\* String.prototype.includes
includes(str, part) ==
    \E i \in 1..(Len(str) - Len(part) + 1) : SubSeq(str, i, i + Len(part) - 1) = part

\* String.prototype.replace(part, ''): the first occurrence is cut out
replace(str, part) ==
    IF ~includes(str, part) THEN str
    ELSE LET i == CHOOSE i \in 1..(Len(str) - Len(part) + 1) :
                      /\ SubSeq(str, i, i + Len(part) - 1) = part
                      /\ \A j \in 1..(i - 1) : SubSeq(str, j, j + Len(part) - 1) # part
         IN SubSeq(str, 1, i - 1) \o SubSeq(str, i + Len(part), Len(str))

Digits == << "1", "2", "3", "4", "5", "6", "7", "8", "9" >>

\* Utils.uniqueId('node'), Utils.uniqueId('link')
NodeName(id) == "node_" \o Digits[id]
LinkName(id) == "link_" \o Digits[id]

\* `${node.id}-${p.id}`
FullPinId(nodeId, localId) == nodeId \o "-" \o localId

\* the default literal a template gives a pin of a type
DefaultValue(type) ==
    CASE type = "float" -> "0.0"
      [] type = "string" -> ""
      [] type = "bool" -> "false"
      [] OTHER -> Undefined

\* new Pin(node, p)
PinObject(nodeId, p, obj) ==
    [id |-> FullPinId(nodeId, p.id), obj |-> obj, type |-> p.type, dir |-> p.dir,
     containerType |-> p.containerType, defaultValue |-> DefaultValue(p.type), links |-> <<>>]

\* a reference to a pin object, as a link holds it
ObjectOf(pin) == [id |-> pin.id, obj |-> pin.obj]

\* new Node(id, nodeData, x, y, nodeKey, app), pins given as the template or
\* the saved data lists them
NodeObject(id, key, pinSpecs, x, y) ==
    LET pins == [j \in 1..Len(pinSpecs) |-> PinObject(id, pinSpecs[j], 0)]
    IN [id |-> id, nodeKey |-> key, title |-> Registry[key].title, x |-> x, y |-> y, pins |-> pins,
        pinLiterals |-> [q \in { pins[j].id : j \in 1..Len(pins) } |->
                           (CHOOSE pin \in SeqToSet(pins) : pin.id = q).defaultValue]]

\* the graph of the current state in full: node i at position at[i], with
\* the literal values typed[pin] on the pins the user typed a value into
InFull(at, typed) ==
    [nodes |->
        [i \in 1..Len(nodes) |->
           LET n == nodes[i]
               o == NodeObject(NodeName(n.id), n.nodeKey,
                               [j \in 1..Len(n.pins) |->
                                  PinSpec(n.pins[j].id, n.pins[j].type, n.pins[j].dir)],
                               at[i][1], at[i][2])
           IN [o EXCEPT !.pins = [j \in 1..Len(n.pins) |->
                                    [o.pins[j] EXCEPT !.links =
                                       [k \in 1..Len(n.pins[j].links) |-> LinkName(n.pins[j].links[k])]]],
                        !.pinLiterals = [q \in DOMAIN o.pinLiterals |->
                                           IF q \in DOMAIN typed THEN typed[q] ELSE o.pinLiterals[q]]]],
     links |->
        [i \in 1..Len(links) |->
           [id |-> LinkName(links[i].id),
            startPin |-> [id |-> FullPinId(NodeName(links[i].startPin.node), links[i].startPin.id),
                          obj |-> 0],
            endPin |-> [id |-> FullPinId(NodeName(links[i].endPin.node), links[i].endPin.id),
                        obj |-> 0]]]]

\* getPinsData that leaves the literal values out
getPinsDataWithoutLiterals(node) ==
    [j \in 1..Len(node.pins) |->
       LET p == node.pins[j]
       IN [id |-> replace(p.id, node.id \o "-"), type |-> p.type, dir |-> p.dir,
           containerType |-> p.containerType, literalValue |-> Undefined]]

getPinsData(node) ==
    [j \in 1..Len(node.pins) |->
       LET p == node.pins[j]
       IN [id |-> replace(p.id, node.id \o "-"), type |-> p.type, dir |-> p.dir,
           containerType |-> p.containerType, literalValue |-> node.pinLiterals[p.id]]]

\* the persistence layer's saved form of a graph
serialize(G) ==
    [nodes |-> [i \in 1..Len(G.nodes) |->
                  [id |-> G.nodes[i].id, nodeKey |-> G.nodes[i].nodeKey,
                   x |-> G.nodes[i].x, y |-> G.nodes[i].y, pins |-> getPinsData(G.nodes[i])]],
     links |-> [i \in 1..Len(G.links) |->
                  [id |-> G.links[i].id, startPinId |-> G.links[i].startPin.id,
                   endPinId |-> G.links[i].endPin.id]]]

\* loadState's loop over nodeData.pins: the saved literal, or the pin's default
RECURSIVE RestoreLiterals(_, _)
RestoreLiterals(node, savedPins) ==
    IF savedPins = <<>> THEN node
    ELSE LET savedPin == Head(savedPins)
             fullPinId == IF includes(savedPin.id, node.id) THEN savedPin.id
                          ELSE FullPinId(node.id, savedPin.id)
             j == IndexOfPin(node.pins, fullPinId)
         IN IF j = 0 THEN RestoreLiterals(node, Tail(savedPins))
            ELSE RestoreLiterals(
                   [node EXCEPT !.pinLiterals[fullPinId] =
                       IF savedPin.literalValue # Undefined THEN savedPin.literalValue
                       ELSE node.pins[j].defaultValue],
                   Tail(savedPins))

RECURSIVE RestoreNodes(_, _)
RestoreNodes(ns, saved) ==
    IF saved = <<>> THEN ns
    ELSE LET nodeData == Head(saved)
         IN IF ~HasTemplate(nodeData.nodeKey) THEN RestoreNodes(ns, Tail(saved))
            ELSE LET node == NodeObject(nodeData.id, nodeData.nodeKey, pinsToLoad(nodeData),
                                        nodeData.x, nodeData.y)
                     loaded == RestoreLiterals(node, nodeData.pins)
                     i == IndexOfPin(ns, node.id)
                 IN RestoreNodes(IF i = 0 THEN Append(ns, loaded) ELSE [ns EXCEPT ![i] = loaded],
                                 Tail(saved))

\* GraphController.findPinById on full identifiers: <<node, pin>> positions, or <<0, 0>>
FindPin(ns, pinId) ==
    IF \E i \in 1..Len(ns) : IndexOfPin(ns[i].pins, pinId) # 0
    THEN LET i == CHOOSE i \in 1..Len(ns) :
                      /\ IndexOfPin(ns[i].pins, pinId) # 0
                      /\ \A k \in 1..(i - 1) : IndexOfPin(ns[k].pins, pinId) = 0
         IN << i, IndexOfPin(ns[i].pins, pinId) >>
    ELSE << 0, 0 >>

RECURSIVE RestoreLinks(_, _)
RestoreLinks(G, saved) ==
    IF saved = <<>> THEN G
    ELSE LET linkData == Head(saved)
             s == FindPin(G.nodes, linkData.startPinId)
             e == FindPin(G.nodes, linkData.endPinId)
         IN IF s[1] # 0 /\ e[1] # 0
            THEN LET ns1 == [G.nodes EXCEPT ![s[1]].pins[s[2]].links = Append(@, linkData.id)]
                     ns2 == [ns1 EXCEPT ![e[1]].pins[e[2]].links = Append(@, linkData.id)]
                     link == [id |-> linkData.id,
                              startPin |-> ObjectOf(G.nodes[s[1]].pins[s[2]]),
                              endPin |-> ObjectOf(G.nodes[e[1]].pins[e[2]])]
                     i == IndexOfPin(G.links, link.id)
                 IN RestoreLinks([nodes |-> ns2,
                                  links |-> IF i = 0 THEN Append(G.links, link)
                                            ELSE [G.links EXCEPT ![i] = link]], Tail(saved))
            ELSE RestoreLinks(G, Tail(saved))

\* loadState(state) on a saved graph in full
loadStateInFull(state) ==
    RestoreLinks([nodes |-> RestoreNodes(<<>>, state.nodes), links |-> <<>>], state.links)

\* where a node may stand, and what a user may type into a pin
Positions == { <<0, 0>>, <<120, 40>> }
TypedValues == { "7" }

\* full identifiers of the input pins that take a literal
LiteralPins ==
    UNION { { FullPinId(NodeName(nodes[i].id), nodes[i].pins[j].id) :
                j \in { j \in 1..Len(nodes[i].pins) :
                          nodes[i].pins[j].dir = "in" /\ nodes[i].pins[j].type # "exec" } } :
            i \in 1..Len(nodes) }

\* the persistence layer saves the graph and loadState restores it; the graph
\* before and the graph after go on record
RoundTrip ==
    \E at \in [1..Len(nodes) -> Positions], T \in SUBSET LiteralPins :
        \E typed \in [T -> TypedValues] :
            LET G == InFull(at, typed)
            IN /\ nodes # <<>>
               /\ lastOp' = [op |-> "roundTrip", watch |-> {}, queued |-> 0, graph |-> G,
                             loaded |-> loadStateInFull(serialize(G))]
               /\ UNCHANGED <<nodes, links, selectedNodes, view>>

InitRound == Empty /\ lastOp = Watching({})

NextRound ==
    \/ AddNode
    \/ ConnectPins
    \/ RoundTrip

SpecRound == InitRound /\ [][NextRound]_vars

\* ------------------------------------------- resynchronization, in full
\* whether link l is among the links the new pin lists and holds oldPin
Repoints(oldPin, l, end) ==
    /\ Contains(oldPin.links, l.id)
    /\ (IF end = "start" THEN l.startPin ELSE l.endPin) = ObjectOf(oldPin)

\* synchronizeNodeWithTemplate that makes the new pins and leaves every link
\* on the pin object it held
synchronizeInFullKeepingOldPins(G, i) ==
    LET node == G.nodes[i]
        tpins == Registry[node.nodeKey].pins
    IN IF ~HasTemplate(node.nodeKey) THEN G
       ELSE [G EXCEPT !.nodes[i].pins =
               [k \in 1..Len(tpins) |->
                  LET newPin == PinObject(node.id, tpins[k], 1)
                      j == IndexOfPin(node.pins, newPin.id)
                  IN IF j = 0 THEN newPin
                     ELSE [newPin EXCEPT !.links = node.pins[j].links,
                                         !.defaultValue = node.pins[j].defaultValue]]]

\* synchronizeNodeWithTemplate(node) for the node at position i of G
synchronizeInFull(G, i) ==
    LET node == G.nodes[i]
        tpins == Registry[node.nodeKey].pins
        \* oldPinsMap.get(fullPinId): the last old pin with that identifier, 0 if none
        oldAt(fullPinId) ==
            IF \E j \in 1..Len(node.pins) : node.pins[j].id = fullPinId
            THEN CHOOSE j \in 1..Len(node.pins) :
                     /\ node.pins[j].id = fullPinId
                     /\ \A m \in (j + 1)..Len(node.pins) : node.pins[m].id # fullPinId
            ELSE 0
        newPins == [k \in 1..Len(tpins) |->
                      LET newPin == PinObject(node.id, tpins[k], 1)
                          j == oldAt(newPin.id)
                      IN IF j = 0 THEN newPin
                         ELSE [newPin EXCEPT !.links = node.pins[j].links,
                                             !.defaultValue = node.pins[j].defaultValue]]
        kept == { k \in 1..Len(tpins) : oldAt(newPins[k].id) # 0 }
        moved(l, end) ==
            IF \E k \in kept : Repoints(node.pins[oldAt(newPins[k].id)], l, end)
            THEN ObjectOf(newPins[CHOOSE k \in kept :
                                    Repoints(node.pins[oldAt(newPins[k].id)], l, end)])
            ELSE IF end = "start" THEN l.startPin ELSE l.endPin
        keptIds == { newPins[k].id : k \in kept }
    IN IF ~HasTemplate(node.nodeKey) THEN G
       ELSE [nodes |-> [G.nodes EXCEPT
                          ![i].title = Registry[node.nodeKey].title,
                          ![i].pins = newPins,
                          ![i].pinLiterals =
                              [q \in DOMAIN node.pinLiterals \cup keptIds |->
                                 IF q \in DOMAIN node.pinLiterals THEN node.pinLiterals[q]
                                 ELSE Undefined]],
             links |-> [m \in 1..Len(G.links) |->
                          [G.links[m] EXCEPT !.startPin = moved(G.links[m], "start"),
                                             !.endPin = moved(G.links[m], "end")]]]

\* updateVariableNodes(oldName, newName): the nodes are visited one after another
RECURSIVE RenameFrom(_, _, _, _)
RenameFrom(G, i, oldName, newName) ==
    IF i > Len(G.nodes) THEN G
    ELSE LET key == G.nodes[i].nodeKey
         IN IF key = GetKey(oldName) \/ key = SetKey(oldName)
            THEN RenameFrom(
                   synchronizeInFull(
                     [G EXCEPT !.nodes[i].nodeKey =
                         IF key = GetKey(oldName) THEN GetKey(newName) ELSE SetKey(newName)], i),
                   i + 1, oldName, newName)
            ELSE RenameFrom(G, i + 1, oldName, newName)

\* updateVariableNodes that looks for the Get nodes only
RECURSIVE RenameGetsFrom(_, _, _, _)
RenameGetsFrom(G, i, oldName, newName) ==
    IF i > Len(G.nodes) THEN G
    ELSE IF G.nodes[i].nodeKey = GetKey(oldName)
         THEN RenameGetsFrom(synchronizeInFull([G EXCEPT !.nodes[i].nodeKey = GetKey(newName)], i),
                             i + 1, oldName, newName)
         ELSE RenameGetsFrom(G, i + 1, oldName, newName)

updateGetNodesInFull(G, oldName, newName) == RenameGetsFrom(G, 1, oldName, newName)

updateVariableNodesInFull(G, oldName, newName) == RenameFrom(G, 1, oldName, newName)

\* saved graphs with the Get and Set nodes of a variable
SavedVariableStates ==
    << [nodes |-> << SavedNode(1, "Get_v"), SavedNode(2, "Set_v"), SavedNode(3, "PrintString") >>,
        links |-> << SavedLink(1, PinRef(1, "val_out"), PinRef(2, "val_in")),
                     SavedLink(2, PinRef(2, "val_out"), PinRef(3, "in_str")) >>],
       [nodes |-> << SavedNode(1, "EventBeginPlay"), SavedNode(2, "Set_w"), SavedNode(3, "Set_v") >>,
        links |-> << SavedLink(1, PinRef(1, "exec_out"), PinRef(2, "exec_in")),
                     SavedLink(2, PinRef(2, "exec_out"), PinRef(3, "exec_in")) >>],
       \* two links saved under one identifier
       [nodes |-> << SavedNode(1, "Get_v"), SavedNode(2, "PrintString"), SavedNode(3, "PrintString") >>,
        links |-> << SavedLink(1, PinRef(1, "val_out"), PinRef(2, "in_str")),
                     SavedLink(1, PinRef(1, "val_out"), PinRef(3, "in_str")) >>] >>

LoadVariableState ==
    \E k \in 1..Len(SavedVariableStates) :
        /\ Len(SavedVariableStates[k].nodes) <= MaxNodes
        /\ Commit(loadState(Graph, SavedVariableStates[k]), [Op("loadState") EXCEPT !.k = k])

\* VariableController renames a variable; the graph in full before and after
\* goes on record
UpdateVariableNodesInFull ==
    \E oldName \in VarNames : \E newName \in VarNames \ {oldName} :
      \E T \in SUBSET LiteralPins : \E typed \in [T -> TypedValues] :
        /\ \E i \in 1..Len(nodes) : nodes[i].nodeKey \in {GetKey(oldName), SetKey(oldName)}
        /\ LET G == InFull([i \in 1..Len(nodes) |-> <<0, 0>>], typed)
               c == Canonical(updateVariableNodes(Graph, oldName, newName), Watching({}))
           IN /\ nodes' = c.nodes
              /\ links' = c.links
              /\ selectedNodes' = c.sel
              /\ view' = [view EXCEPT !.details = c.details, !.selectedLinks = c.selectedLinks]
              /\ lastOp' = [op |-> "updateVariableNodes", watch |-> {}, queued |-> 0, graph |-> G,
                            oldName |-> oldName, newName |-> newName,
                            after |-> updateVariableNodesInFull(G, oldName, newName)]

InitSync == Empty /\ lastOp = Watching({})

NextSync ==
    \/ LoadVariableState
    \/ ConnectPins
    \/ BreakLinkById
    \/ UpdateVariableNodesInFull

SpecSync == InitSync /\ [][NextSync]_vars

\* ---------------------------------------------------- claims: invariants
LiveNodesOfKey(key) == { i \in 1..Len(nodes) : nodes[i].nodeKey = key }

\* C1: in every reachable state each singleton-flagged template key has at
\* most one live node in the node collection.
C1_SingletonAtMostOnce ==
    \A key \in DOMAIN Registry :
        Registry[key].isSingleton => Cardinality(LiveNodesOfKey(key)) <= 1

\* C2: in every reachable state every input pin of non-exec type has at most
\* one link identifier in its links list.
C2_InputHoldsAtMostOneLink ==
    \A ref \in AllPinRefs(nodes) :
        LET pin == findPinById(nodes, ref)
        IN (pin.dir = "in" /\ pin.type # "exec") => Len(pin.links) <= 1

\* C3: in every reachable state every link of the link collection has a start
\* pin of direction 'out' and an end pin of direction 'in'.
C3_LinksRunOutToIn ==
    \A i \in 1..Len(links) :
        /\ HasPin(nodes, links[i].startPin) => findPinById(nodes, links[i].startPin).dir = "out"
        /\ HasPin(nodes, links[i].endPin) => findPinById(nodes, links[i].endPin).dir = "in"

\* C4: in every reachable state, for every link of the link collection, the
\* links lists of its start pin and of its end pin both contain its identifier.
C4_BothEndsListTheLink ==
    \A i \in 1..Len(links) :
        /\ HasPin(nodes, links[i].startPin)
        /\ Contains(findPinById(nodes, links[i].startPin).links, links[i].id)
        /\ HasPin(nodes, links[i].endPin)
        /\ Contains(findPinById(nodes, links[i].endPin).links, links[i].id)

\* an adapter stands between two nodes: two links made by createConnection
C4_Witness ==
    /\ Len(links) = 2
    /\ \E i \in 1..Len(nodes) : nodes[i].nodeKey = "Conv_FloatToString"
    /\ \A i \in 1..Len(links) :
          /\ Contains(findPinById(nodes, links[i].startPin).links, links[i].id)
          /\ Contains(findPinById(nodes, links[i].endPin).links, links[i].id)

\* C5: after every operation both end pins of every link belong to nodes
\* that are in the node collection.
C5_NoLinkToARemovedNode ==
    \A i \in 1..Len(links) :
        /\ links[i].startPin.node \in NodeIds(nodes)
        /\ links[i].endPin.node \in NodeIds(nodes)

\* An adapter float -> string is only ever inserted in front of a PrintString
\* node, and single nodes only go away in deleteSelectedNodes: here the
\* PrintString node has been deleted and a link is left.
C5_Witness ==
    /\ \E i \in 1..Len(nodes) : nodes[i].nodeKey = "Conv_FloatToString"
    /\ \A i \in 1..Len(nodes) : nodes[i].nodeKey # "PrintString"
    /\ Len(links) >= 1
    /\ \A i \in 1..Len(links) :
          links[i].startPin.node \in NodeIds(nodes) /\ links[i].endPin.node \in NodeIds(nodes)

\* ------------------------------------------------ claims: createConnection
AdapterRegistered(sourceType, destType) == getConversionNodeKey(sourceType, destType) # ""

\* the last operation was createConnection(p, q), p an output and q an input pin
Connected ==
    /\ lastOp.op = "createConnection"
    /\ findPinById(nodes, lastOp.a).dir = "out"
    /\ findPinById(nodes, lastOp.b).dir = "in"

EndPoints(ls) == { <<l.startPin, l.endPin>> : l \in ls }

\* C8: for an output pin p and an input pin q of identical value types,
\* createConnection(p, q) adds exactly one new link, from p to q, and no node.
C8_MatchingTypesOneLink ==
    (Connected /\ findPinById(nodes, lastOp.a).type = findPinById(nodes, lastOp.b).type)
    => /\ Cardinality(lastOp.addedLinks) = 1
       /\ EndPoints(lastOp.addedLinks) = { <<lastOp.a, lastOp.b>> }
       /\ lastOp.addedLinks \subseteq SeqToSet(links)
       /\ lastOp.addedNodes = {}

\* float output to float input, replacing the link the input held
C8_Witness ==
    /\ Connected
    /\ findPinById(nodes, lastOp.a).type = "float"
    /\ findPinById(nodes, lastOp.b).type = "float"
    /\ lastOp.heldB # {}
    /\ Cardinality(lastOp.addedLinks) = 1

\* the effect of an adapter insertion between lastOp.a and lastOp.b
AdapterInserted ==
    /\ Cardinality(lastOp.addedNodes) = 1
    /\ \A n \in lastOp.addedNodes :
          /\ n \in NodeIds(nodes)
          /\ nodes[IndexOfId(nodes, n)].nodeKey =
                getConversionNodeKey(findPinById(nodes, lastOp.a).type,
                                     findPinById(nodes, lastOp.b).type)
          /\ EndPoints(lastOp.addedLinks) =
                { <<lastOp.a, PinRef(n, "val_in")>>, <<PinRef(n, "val_out"), lastOp.b>> }
    /\ Cardinality(lastOp.addedLinks) = 2
    /\ lastOp.addedLinks \subseteq SeqToSet(links)

TypesDifferWithAdapter ==
    /\ findPinById(nodes, lastOp.a).type # findPinById(nodes, lastOp.b).type
    /\ AdapterRegistered(findPinById(nodes, lastOp.a).type, findPinById(nodes, lastOp.b).type)

\* C9 as stated: for an output pin p and an input pin q whose value types
\* differ and have a registered adapter, createConnection(p, q) adds exactly
\* one adapter node and exactly two links, p -> adapter.val_in and
\* adapter.val_out -> q, and no direct link p -> q.
C9_AsStated ==
    (Connected /\ TypesDifferWithAdapter) => AdapterInserted

\* the adapter's template is in the catalog, is no singleton, and has both ports
AdapterExposesPorts(key) ==
    /\ HasTemplate(key)
    /\ ~Registry[key].isSingleton
    /\ \E i \in 1..Len(Registry[key].pins) : Registry[key].pins[i].id = "val_in"
    /\ \E i \in 1..Len(Registry[key].pins) : Registry[key].pins[i].id = "val_out"

\* C9: for an output pin p and an input pin q whose value types differ and
\* have a registered adapter whose node exposes both val_in and val_out,
\* createConnection(p, q) adds exactly one adapter node and exactly two
\* links, p -> adapter.val_in and adapter.val_out -> q, and no direct link.
C9_AdapterWithPortsInserted ==
    (/\ Connected
     /\ TypesDifferWithAdapter
     /\ AdapterExposesPorts(getConversionNodeKey(findPinById(nodes, lastOp.a).type,
                                                 findPinById(nodes, lastOp.b).type)))
    => AdapterInserted

\* a float output wired to a string input through a new Conv_FloatToString node
C9_Witness ==
    /\ Connected
    /\ findPinById(nodes, lastOp.a).type = "float"
    /\ findPinById(nodes, lastOp.b).type = "string"
    /\ AdapterInserted

AllPinsLinkIds ==
    UNION { SeqToSet(findPinById(nodes, ref).links) : ref \in AllPinRefs(nodes) }

\* C10: when createConnection targets a single-capacity input pin that
\* already holds a link, that link is removed from the link collection and
\* from both its end pins, and afterwards the input pin's links list
\* contains only the new link.
C10_ReplacesTheHeldLink ==
    (/\ Connected
     /\ getMaxLinks(findPinById(nodes, lastOp.b)) = 1
     /\ lastOp.heldB # {})
    => /\ \A id \in lastOp.heldB : id \notin LinkIds(links) /\ id \notin AllPinsLinkIds
       /\ \E l \in lastOp.addedLinks :
             l.endPin = lastOp.b /\ findPinById(nodes, lastOp.b).links = << l.id >>

\* ------------------------------------------------ canConnect on its own
PinTypes == {"float", "string", "bool", "exec"}
ContainerTypes == {"single", "array"}
Owners == {0, 1, 2}
NoPinView == [exists |-> FALSE, node |-> 0, dir |-> "in", type |-> "exec", containerType |-> "single"]

\* what canConnect may be handed: no pin at all, a pin that has lost its node
\* (node = 0), or a pin of one of two nodes
PinViews ==
    {NoPinView} \cup [exists : {TRUE}, node : Owners, dir : {"in", "out"},
                      type : PinTypes, containerType : ContainerTypes]

InitCan == Empty /\ lastOp = Watching({})

CanConnect ==
    \E pA \in PinViews, pB \in PinViews :
        /\ lastOp' = [op |-> "canConnect", pinA |-> pA, pinB |-> pB, result |-> canConnect(pA, pB)]
        /\ UNCHANGED <<nodes, links, selectedNodes, view>>

NextCan == CanConnect

SpecCan == InitCan /\ [][NextCan]_vars

\* ---------------------------------------------------------------- claims
Owned(p) == p.exists /\ p.node # 0

\* C6: canConnect returns false for every pair of pins owned by the same
\* node, whatever their directions, value types and container-type tags.
C6_SameNodeNeverConnects ==
    (/\ lastOp.op = "canConnect"
     /\ Owned(lastOp.pinA) /\ Owned(lastOp.pinB)
     /\ lastOp.pinA.node = lastOp.pinB.node)
    => lastOp.result = FALSE

\* two pins of one node that agree in everything else canConnect tests
C6_Witness ==
    /\ lastOp.op = "canConnect"
    /\ Owned(lastOp.pinA) /\ Owned(lastOp.pinB)
    /\ lastOp.pinA.node = lastOp.pinB.node
    /\ lastOp.pinA.dir = "out" /\ lastOp.pinB.dir = "in"
    /\ lastOp.pinA.type = lastOp.pinB.type
    /\ lastOp.pinA.containerType = lastOp.pinB.containerType
    /\ lastOp.result = FALSE

\* the conditions of the claim, for output pin o and input pin i
Connectable(o, i) ==
    /\ o.containerType = i.containerType
    /\ o.type = i.type \/ AdapterRegistered(o.type, i.type)

LastAdapterKey ==
    getConversionNodeKey(findPinById(nodes, lastOp.a).type, findPinById(nodes, lastOp.b).type)

\* C11: when the adapter node instantiated by createConnection does not
\* expose both val_in and val_out, the adapter node is removed again and no
\* connection is made: the link collection gains no link.
C11_RollbackMakesNoConnection ==
    (/\ Connected
     /\ TypesDifferWithAdapter
     /\ HasTemplate(LastAdapterKey)
     /\ ~AdapterExposesPorts(LastAdapterKey))
    => /\ lastOp.addedNodes = {}
       /\ \A i \in 1..Len(nodes) : nodes[i].nodeKey # LastAdapterKey
       /\ lastOp.addedLinks = {}

\* C12: addNode on a singleton-flagged template key that has a live instance
\* returns no node and leaves the number of nodes unchanged.
C12_SingletonAddRejected ==
    (/\ lastOp.op = "addNode"
     /\ HasTemplate(lastOp.key)
     /\ Registry[lastOp.key].isSingleton
     /\ \E i \in 1..Len(nodes) :
           nodes[i].nodeKey = lastOp.key /\ nodes[i].id \notin lastOp.addedNodes)
    => /\ lastOp.node = 0
       /\ lastOp.addedNodes = {}
       /\ lastOp.removedNodes = {}

\* a second EventBeginPlay was asked for and refused
C12_Witness ==
    /\ lastOp.op = "addNode"
    /\ lastOp.key = "EventBeginPlay"
    /\ lastOp.node = 0
    /\ Cardinality(LiveNodesOfKey("EventBeginPlay")) = 1
    /\ lastOp.addedNodes = {}
\* ------------------------------------------------- claims: node deletion
Deleted == lastOp.op = "deleteSelectedNodes"

\* C13: after deleteSelectedNodes, whatever state it was called in, no link
\* of the link collection has its start pin or its end pin on a node that
\* the operation deleted.
C13_NoLinkOnADeletedNode ==
    Deleted =>
        \A i \in 1..Len(links) :
            /\ links[i].startPin.node \notin lastOp.removedNodes
            /\ links[i].endPin.node \notin lastOp.removedNodes

\* nodes were deleted that had links, and links among the other nodes remain
C13_Witness ==
    /\ Deleted
    /\ lastOp.removedNodes # {}
    /\ lastOp.removedLinks # {}
    /\ links # <<>>

\* the pins of surviving nodes at the other end of the links that went with the deleted nodes
SurvivingEnds ==
    { r \in { l.startPin : l \in lastOp.removedLinks } \cup { l.endPin : l \in lastOp.removedLinks } :
        r.node \notin lastOp.removedNodes /\ HasPin(nodes, r) }

\* C14: after a node is deleted, every pin of a surviving node that was
\* linked to it no longer lists the link that joined them.
C14_SurvivorsForgetTheLink ==
    Deleted =>
        \A l \in lastOp.removedLinks :
            \A r \in {l.startPin, l.endPin} \cap SurvivingEnds :
                ~Contains(findPinById(nodes, r).links, l.id)

\* N1.out -> N2.a, N1 deleted: N2.a lists no link
C14_Witness ==
    /\ Deleted
    /\ \E l \in lastOp.removedLinks :
          /\ l.startPin.node \in lastOp.removedNodes
          /\ l.endPin \in SurvivingEnds
          /\ findPinById(nodes, l.endPin).links = <<>>

\* ------------------------------------------------- claims: duplication
Duplicated == lastOp.op = "duplicateSelectedNodes"

\* the link collection as it was when the last operation was called
LinksBefore == (SeqToSet(links) \ lastOp.addedLinks) \cup lastOp.removedLinks

\* links with both ends inside the selection the last operation was called with
InternalLinks ==
    { l \in LinksBefore : l.startPin.node \in lastOp.sel /\ l.endPin.node \in lastOp.sel }

NodeOfId(id) == nodes[IndexOfId(nodes, id)]

\* the two pins a link joins, each moved to the copy f gives for its node
CopiedEnds(l, f) ==
    { PinRef(f[l.startPin.node], l.startPin.id), PinRef(f[l.endPin.node], l.endPin.id) }

\* C15: duplicateSelectedNodes on a selection of N nodes with M links inside
\* the selection produces exactly N new nodes, one copy per selected node,
\* and exactly M new links, each between the pins of the copies that
\* correspond to an original link's pins; no link that existed is removed
\* or changed, so the links crossing the selection boundary stay as they
\* were and are not duplicated.
C15_DuplicateCopiesNodesAndInnerLinks ==
    (Duplicated /\ lastOp.sel # {}) =>
        /\ Cardinality(lastOp.addedNodes) = Cardinality(lastOp.sel)
        /\ Cardinality(lastOp.addedLinks) = Cardinality(InternalLinks)
        /\ lastOp.removedLinks = {}
        /\ \E f \in [lastOp.sel -> lastOp.addedNodes] :
              /\ \A x, y \in lastOp.sel : f[x] = f[y] => x = y
              /\ \A x \in lastOp.sel : NodeOfId(f[x]).nodeKey = NodeOfId(x).nodeKey
              /\ { {l.startPin, l.endPin} : l \in lastOp.addedLinks }
                    = { CopiedEnds(l, f) : l \in InternalLinks }

\* ------------------------------------------------- claims: save and load
\* what the round trip is to keep: each node's identifier, position, template
\* key and literal values, and the pairs of pins the links join
Kept(G) ==
    [nodes |-> { [id |-> n.id, x |-> n.x, y |-> n.y, nodeKey |-> n.nodeKey,
                  literals |-> n.pinLiterals] : n \in SeqToSet(G.nodes) },
     links |-> { << l.startPin.id, l.endPin.id >> : l \in SeqToSet(G.links) }]

Renamed == lastOp.op = "updateVariableNodes"

\* positions of the nodes the rename touched
Resynced == { i \in 1..Len(lastOp.graph.nodes) :
                lastOp.graph.nodes[i].nodeKey # lastOp.after.nodes[i].nodeKey }

\* the pin objects of node i, before, whose full identifier the new pin set has too
PinsKept(i) ==
    { p \in SeqToSet(lastOp.graph.nodes[i].pins) :
        \E q \in SeqToSet(lastOp.after.nodes[i].pins) : q.id = p.id }

NewPinOf(i, p) == CHOOSE q \in SeqToSet(lastOp.after.nodes[i].pins) : q.id = p.id

\* C17: after updateVariableNodes and the resynchronization it runs, for
\* every Get/Set node it touched and every pin whose full identifier is in
\* the old and in the new pin set, every link that was incident on the pin
\* is still in the collection under its identifier with that end on the new
\* pin object, the new pin lists it, and the pin's literal value is the same.
C17_ResyncKeepsLinksAndLiterals ==
    Renamed =>
        \A i \in Resynced : \A p \in PinsKept(i) :
            /\ \A l \in SeqToSet(lastOp.graph.links) :
                  (l.startPin = ObjectOf(p) \/ l.endPin = ObjectOf(p)) =>
                      /\ NewPinOf(i, p).obj # p.obj
                      /\ Contains(NewPinOf(i, p).links, l.id)
                      /\ \E l2 \in SeqToSet(lastOp.after.links) :
                            /\ l2.id = l.id
                            /\ l.startPin = ObjectOf(p) => l2.startPin = ObjectOf(NewPinOf(i, p))
                            /\ l.endPin = ObjectOf(p) => l2.endPin = ObjectOf(NewPinOf(i, p))
                            /\ l2.startPin.id = l.startPin.id
                            /\ l2.endPin.id = l.endPin.id
            /\ lastOp.after.nodes[i].pinLiterals[p.id] = lastOp.graph.nodes[i].pinLiterals[p.id]

\* a Set node with a link into val_in, a link out of val_out and a typed
\* literal was renamed
C17_Witness ==
    /\ Renamed
    /\ \E i \in Resynced :
          /\ Len(lastOp.graph.nodes[i].pins) = 4
          /\ \E p, q \in PinsKept(i) :
                /\ p.dir = "in" /\ p.links # <<>>
                /\ lastOp.graph.nodes[i].pinLiterals[p.id] \in TypedValues
                /\ q.dir = "out" /\ q.links # <<>>

\* ------------------------------------------------- claims: notifications
\* the mutations that are to be followed by markDirty
ShapeChanging ==
    { "addNode", "deleteSelectedNodes", "duplicateSelectedNodes", "createConnection",
      "breakLinkById", "moveNodes", "updateVariableNodes" }

\* C18: every graph-shape-changing mutation (a successful addNode,
\* deleteSelectedNodes, duplicateSelectedNodes, createConnection,
\* breakLinkById, the end of a node move, updateVariableNodes with its
\* resynchronization) is followed by at least one markDirty: an operation
\* that has changed the graph does not stay without a markDirty after it.
C18_ChangeIsFollowedByMarkDirty ==
    \A op \in ShapeChanging : (op \in lastOp.owed) ~> (op \notin lastOp.owed)

\* C19: every operation that fires markDirty (addNode, deleteSelectedNodes,
\* createConnection, breakLinkById, the end of a node move) also fires
\* autoSave within the same operation.
C19_MarkDirtyComesWithAutoSave ==
    lastOp.dirty > 0 => lastOp.saved > 0

\* ------------------------------------------------------- claims: faults
\* C20: no controller operation ends in a fault; in particular
\* duplicateSelectedNodes completes without fault when the selection holds a
\* singleton node or a node with more pins than its template.
C20_NoOperationFaults ==
    ~lastOp.fault

\* C21: a call that finds nothing changes nothing.  addNode with a key the
\* registry does not know returns null and leaves the nodes and the links as
\* they were; breakLinkById with an identifier no link has, and breakPinLinks
\* with a pin identifier no link references, leave the nodes, the links and
\* every pin's list of links as they were, call neither autoSave nor
\* markDirty and request no animation frame that would.
C21_NotFoundChangesNothing ==
    /\ (lastOp.op = "addNode" /\ ~HasTemplate(lastOp.key)) =>
           (lastOp.node = 0 /\ ~lastOp.changed)
    /\ (lastOp.op \in {"breakLinkById", "breakPinLinks"} /\ lastOp.k = 0) =>
           (~lastOp.changed /\ lastOp.dirty = 0 /\ lastOp.saved = 0 /\ lastOp.later = 0)

\* breakPinLinks has run on a pin without links in a graph that has links
C21_Witness ==
    /\ lastOp.op = "breakPinLinks"
    /\ lastOp.k = 0
    /\ HasPin(nodes, lastOp.a)
    /\ links # <<>>
    /\ ~lastOp.changed

\* ------------------------------------------------ claims: pointer gestures
ActiveModes ==
    { f \in {"isWiring", "isDraggingNode", "isPanning", "isMarqueeing"} : view[f] }

\* C22: in every state that pointer-down, pointer-move and pointer-up events
\* lead to, a second pointer-down with another button before the first
\* pointer-up included, at most one of the modes wiring, draggingNode,
\* panning and marqueeing is active.
C22_AtMostOneModeActive == Cardinality(ActiveModes) <= 1

\* the handler of a pointer-up has run while a wire was dragged from a pin
WiringEnded ==
    /\ lastOp.op = "mouseUp"
    /\ lastOp.ran
    /\ lastOp.before.isWiring
    /\ lastOp.before.activePin # NoPin

MenuOpenedWithThePin == lastOp.menu /\ lastOp.menuPin = lastOp.before.activePin

\* C23, as stated: a pointer-up that ends a wire dragged from a pin calls
\* createConnection when it is over a pin that canConnect accepts, and in
\* every other case, over the canvas or over a pin that canConnect rejects,
\* opens the action menu with the dragged pin.
C23_AsStated ==
    WiringEnded => IF lastOp.compatible THEN lastOp.connect ELSE MenuOpenedWithThePin

\* C23, amended: a pointer-up that ends a wire dragged from a pin calls
\* createConnection when it is over a pin that canConnect accepts, opens the
\* action menu with the dragged pin when it is over no pin, and does neither
\* when it is over a pin that canConnect rejects.
C23_MenuOnlyOverNoPin ==
    WiringEnded =>
        /\ lastOp.compatible => (lastOp.connect /\ ~lastOp.menu)
        /\ lastOp.e.target.kind # "pin" => (MenuOpenedWithThePin /\ ~lastOp.connect)
        /\ (lastOp.e.target.kind = "pin" /\ ~lastOp.compatible) => (~lastOp.connect /\ ~lastOp.menu)

\* a wire dragged from a pin was let go over a pin canConnect rejects: no
\* connection, no menu, and the gesture is over
C23_Witness ==
    /\ WiringEnded
    /\ lastOp.e.target.kind = "pin"
    /\ ~lastOp.compatible
    /\ ~lastOp.menu
    /\ ~view.isWiring

\* C24: a pointer-up over a pin that canConnect rejects, with Alt up, makes
\* no link and no node: the nodes, the links and every pin's list of links
\* are what they were.
C24_RejectedPinChangesNothing ==
    (WiringEnded /\ lastOp.e.target.kind = "pin" /\ ~lastOp.e.altKey /\ ~lastOp.compatible) =>
        (~lastOp.connect /\ ~lastOp.changed)

\* a wire dragged from one pin of a graph with a link was let go over another
\* pin that canConnect rejects
C24_Witness ==
    /\ WiringEnded
    /\ lastOp.e.target.kind = "pin"
    /\ lastOp.e.target.pin # lastOp.before.activePin
    /\ ~lastOp.e.altKey
    /\ ~lastOp.compatible
    /\ links # <<>>
    /\ ~lastOp.changed

\* C25: when handleGlobalMouseUp has returned, none of isWiring,
\* isDraggingNode, isPanning, isMarqueeing and isRmbDown is set, whatever the
\* pointer was over.
C25_PointerUpClearsEveryFlag ==
    (lastOp.op = "mouseUp" /\ lastOp.ran) =>
        (ActiveModes = {} /\ ~view.isRmbDown)

\* ------------------------------------------------ claims: selection
\* selectNode has run on a node of the graph with these arguments
Selected(addToSelection, mode) ==
    /\ lastOp.op = "selectNode"
    /\ lastOp.key = mode
    /\ lastOp.k = (IF addToSelection THEN 1 ELSE 0)

NowSelected == selectedNodes \cap NodeIds(nodes)

Flipped(S, id) == IF id \in S THEN S \ {id} ELSE S \cup {id}

\* C26, as stated: selectNode(id, addToSelection, mode) on a node of the
\* graph: mode 'new' clears the selection unless addToSelection is true and
\* then adds id; modes 'add', 'remove' and 'toggle' add, remove or flip id
\* and keep every other member, whatever addToSelection is.
C26_AsStated ==
    /\ \A a \in BOOLEAN :
         /\ Selected(a, "add") => NowSelected = lastOp.sel \cup {lastOp.node}
         /\ Selected(a, "remove") => NowSelected = lastOp.sel \ {lastOp.node}
         /\ Selected(a, "toggle") => NowSelected = Flipped(lastOp.sel, lastOp.node)
    /\ Selected(TRUE, "new") => NowSelected = lastOp.sel \cup {lastOp.node}
    /\ Selected(FALSE, "new") => NowSelected = {lastOp.node}

\* C26, amended: with addToSelection true, 'new' and 'add' add id, 'remove'
\* removes it and 'toggle' flips it, and every other member stays; with
\* addToSelection false every mode clears the selection first, so that
\* 'new', 'add' and 'toggle' leave id alone selected and 'remove' leaves
\* nothing selected.
C26_ModesKeepOthersWhenAdding ==
    /\ Selected(TRUE, "new") => NowSelected = lastOp.sel \cup {lastOp.node}
    /\ Selected(TRUE, "add") => NowSelected = lastOp.sel \cup {lastOp.node}
    /\ Selected(TRUE, "remove") => NowSelected = lastOp.sel \ {lastOp.node}
    /\ Selected(TRUE, "toggle") => NowSelected = Flipped(lastOp.sel, lastOp.node)
    /\ \A mode \in {"new", "add", "toggle"} :
         Selected(FALSE, mode) => selectedNodes = {lastOp.node}
    /\ Selected(FALSE, "remove") => selectedNodes = {}

\* selectNode(id, false, 'add') has run while another node was selected
C26_Witness ==
    /\ Selected(FALSE, "add")
    /\ lastOp.sel \ {lastOp.node} # {}
    /\ selectedNodes = {lastOp.node}

\* C27: after every operation that changes the selection (selectNode,
\* clearSelection, the end of a marquee, deleteSelectedNodes,
\* duplicateSelectedNodes, toggleLinkSelection) the details panel shows a
\* node exactly when one node is selected, and it shows that node; with no
\* node or several nodes selected it is cleared.
C27_DetailsFollowTheSelection ==
    lastOp.op \in {"selectNode", "clearSelection", "selectNodesInRect", "deleteSelectedNodes",
                   "duplicateSelectedNodes", "toggleLinkSelection"} =>
        IF Cardinality(selectedNodes) = 1
        THEN view.details.kind = "node" /\ view.details.id \in selectedNodes
        ELSE view.details = NoDetails

DragEnded == lastOp.op = "mouseUp" /\ lastOp.ran /\ lastOp.before.isDraggingNode

Apart(a, b) == IF a >= b THEN a - b ELSE b - a

\* C28: when a drag of nodes ends on pointer-up, x and y of every selected
\* node are multiples of the grid pitch 10, each a multiple nearest to where
\* the node was dragged, the nodes that are not selected stay where they
\* were, and autoSave and markDirty are called.
C28_DragEndSnapsToGrid ==
    DragEnded =>
        /\ \A i \in 1..Len(nodes) :
             IF nodes[i].id \in selectedNodes
             THEN \A c \in 1..2 :
                    /\ view.at[i][c] % 10 = 0
                    /\ 2 * Apart(view.at[i][c], lastOp.before.at[i][c]) <= 10
             ELSE view.at[i] = lastOp.before.at[i]
        /\ lastOp.saved >= 1
        /\ lastOp.dirty >= 1

\* a drag has ended with a selected node off the grid in x and in y, which
\* has been moved onto it, and another node, not selected, off the grid
C28_Witness ==
    /\ DragEnded
    /\ \E i, j \in 1..Len(nodes) :
         /\ nodes[i].id \in selectedNodes
         /\ lastOp.before.at[i][1] % 10 # 0
         /\ lastOp.before.at[i][2] % 10 # 0
         /\ view.at[i] # lastOp.before.at[i]
         /\ nodes[j].id \notin selectedNodes
         /\ view.at[j][1] % 10 # 0

MarqueeEnded == lastOp.op = "mouseUp" /\ lastOp.ran /\ lastOp.before.isMarqueeing

\* the nodes whose centre is in the marquee's rectangle or on its bounds
InTheMarquee ==
    { nodes[i].id : i \in { k \in 1..Len(nodes) :
        /\ lastOp.before.marquee.left <= view.at[k][1] + HalfWidth
        /\ view.at[k][1] + HalfWidth <= lastOp.before.marquee.right
        /\ lastOp.before.marquee.top <= view.at[k][2] + HalfHeight
        /\ view.at[k][2] + HalfHeight <= lastOp.before.marquee.bottom } }

NoKeyHeld(e) == ~e.shiftKey /\ ~e.ctrlKey /\ ~e.altKey

\* C29: when a marquee ends, selectNode has been applied, with the mode the
\* modifier keys choose (shift: add, ctrl: toggle, alt: remove, none: new),
\* to exactly the nodes whose centre lies in the rectangle, bounds included;
\* with no modifier key held during the gesture the selection is exactly
\* these nodes.
C29_MarqueeSelectsTheNodesInside ==
    MarqueeEnded =>
        /\ lastOp.e.shiftKey => selectedNodes = lastOp.before.sel \cup InTheMarquee
        /\ lastOp.e.ctrlKey /\ ~lastOp.e.shiftKey =>
             selectedNodes = (lastOp.before.sel \ InTheMarquee) \cup (InTheMarquee \ lastOp.before.sel)
        /\ lastOp.e.altKey /\ ~lastOp.e.ctrlKey /\ ~lastOp.e.shiftKey =>
             selectedNodes = lastOp.before.sel \ InTheMarquee
        /\ NoKeyHeld(lastOp.e) => selectedNodes = lastOp.before.sel \cup InTheMarquee
        /\ NoKeyHeld(lastOp.e) /\ NoKeyHeld(lastOp.down) => selectedNodes = InTheMarquee

\* a marquee drawn and ended without a modifier key has selected a node
\* whose centre is on the right bound of the rectangle and left out another
C29_Witness ==
    /\ MarqueeEnded
    /\ NoKeyHeld(lastOp.e) /\ NoKeyHeld(lastOp.down)
    /\ \E i, j \in 1..Len(nodes) :
         /\ nodes[i].id \in selectedNodes
         /\ view.at[i][1] + HalfWidth = lastOp.before.marquee.right
         /\ nodes[j].id \notin selectedNodes

Loaded == lastOp.op = "loadState"

\* the serialized nodes whose key the catalog knows
KnownSaved(state) == { n \in SeqToSet(state.nodes) : n.nodeKey \in DOMAIN Registry }

\* a saved pin identifier names a pin of a serialized node that is loaded
Resolves(state, ref) ==
    \E n \in KnownSaved(state) :
        /\ n.id = ref.node
        /\ \E i \in 1..Len(Registry[n.nodeKey].pins) : Registry[n.nodeKey].pins[i].id = ref.id

RestoredSaved(state) ==
    { l \in SeqToSet(state.links) : Resolves(state, l.startPinId) /\ Resolves(state, l.endPinId) }

\* the ways to match the members of A with the members of B one to one
Matchings(A, B) ==
    IF Cardinality(A) # Cardinality(B) THEN {}
    ELSE { f \in [A -> B] : \A x, y \in A : f[x] = f[y] => x = y }

PinOfNode(pinId, node) ==
    /\ Len(pinId) > Len(node.id)
    /\ SubSeq(pinId, 1, Len(node.id) + 1) = node.id \o "-"

PinObjects(node) == { ObjectOf(node.pins[j]) : j \in 1..Len(node.pins) }

\* C31: when updateVariableNodes with its template resynchronization
\* returns, every link of the collection that touches a node whose pins it
\* has replaced ends, on that node, at a pin that is a member of the node's
\* current pin collection.
C31_LinksEndAtCurrentPins ==
    Renamed =>
        \A i \in Resynced : \A l \in SeqToSet(lastOp.after.links) :
            /\ PinOfNode(l.startPin.id, lastOp.after.nodes[i]) =>
                 l.startPin \in PinObjects(lastOp.after.nodes[i])
            /\ PinOfNode(l.endPin.id, lastOp.after.nodes[i]) =>
                 l.endPin \in PinObjects(lastOp.after.nodes[i])

\* a Set node with a link into one of its pins and a link out of another
\* has been renamed, and its pins are new objects
C31_Witness ==
    /\ Renamed
    /\ \E i \in Resynced :
         /\ \E l \in SeqToSet(lastOp.after.links) : PinOfNode(l.startPin.id, lastOp.after.nodes[i])
         /\ \E l \in SeqToSet(lastOp.after.links) : PinOfNode(l.endPin.id, lastOp.after.nodes[i])
         /\ PinObjects(lastOp.after.nodes[i]) \cap PinObjects(lastOp.graph.nodes[i]) = {}

\* the pins of a node as a template lists them
PinSpecsOf(node) ==
    [j \in 1..Len(node.pins) |->
       [id |-> replace(node.pins[j].id, node.id \o "-"), type |-> node.pins[j].type,
        dir |-> node.pins[j].dir, containerType |-> node.pins[j].containerType]]

\* C32: after updateVariableNodes(oldName, newName) every node whose key was
\* Get_<oldName> has the key Get_<newName> and every node whose key was
\* Set_<oldName> has the key Set_<newName>, the title and the pins of each
\* such node are those of the new template, and key, title and pins of
\* every other node are as they were.
C32_RenameRekeysGetAndSetNodes ==
    Renamed =>
        /\ Len(lastOp.after.nodes) = Len(lastOp.graph.nodes)
        /\ \A i \in 1..Len(lastOp.graph.nodes) :
             LET was == lastOp.graph.nodes[i]
                 is == lastOp.after.nodes[i]
             IN \A old \in VarNames, new \in VarNames :
                  (lastOp.oldName = old /\ lastOp.newName = new) =>
                     /\ is.id = was.id
                     /\ was.nodeKey = "Get_" \o old => is.nodeKey = "Get_" \o new
                     /\ was.nodeKey = "Set_" \o old => is.nodeKey = "Set_" \o new
                     /\ was.nodeKey \in {"Get_" \o old, "Set_" \o old} =>
                          /\ is.title = Registry[is.nodeKey].title
                          /\ PinSpecsOf(is) = Registry[is.nodeKey].pins
                     /\ was.nodeKey \notin {"Get_" \o old, "Set_" \o old} =>
                          /\ is.nodeKey = was.nodeKey
                          /\ is.title = was.title
                          /\ is.pins = was.pins

\* a graph with a Get node and a Set node of the variable and a node of
\* another key has been renamed
C32_Witness ==
    /\ Renamed
    /\ \E i, j, k \in 1..Len(lastOp.graph.nodes) :
         /\ lastOp.graph.nodes[i].nodeKey = "Get_" \o lastOp.oldName
         /\ lastOp.graph.nodes[j].nodeKey = "Set_" \o lastOp.oldName
         /\ lastOp.graph.nodes[k].nodeKey \notin {"Get_" \o lastOp.oldName, "Set_" \o lastOp.oldName}
         /\ lastOp.after.nodes[i].title = "Get " \o lastOp.newName
         /\ lastOp.after.nodes[j].title = "Set " \o lastOp.newName

\* the nodes a createConnection step connected: those of the two pins it was
\* given and the conversion node it added between them
ConnectedNodes ==
    {lastOp.a.node, lastOp.b.node} \cup (NodeIds(nodes) \ NodeIds(lastOp.before.nodes))

\* C33: createConnection draws no wire and redraws the wires of no node
\* itself: it leaves a callback waiting for the next animation frame that
\* redraws the wires of the nodes of both pins and of the conversion node it
\* inserted; and if the display keeps refreshing, an animation frame follows
\* in which the wires of each of those nodes are redrawn.
C33_RedrawIsDeferredToTheNextFrame ==
    /\ [](lastOp.op = "createConnection" =>
            /\ lastOp.drawn = <<>>
            /\ lastOp.wired = {}
            /\ \E i \in 1..Len(lastOp.requested) :
                  /\ SeqToSet(lastOp.requested[i].redraw) = ConnectedNodes
                  /\ \E j \in 1..Len(view.frames) : view.frames[j] = lastOp.requested[i])
    /\ (lastOp.op = "createConnection" /\ ConnectedNodes \subseteq lastOp.toRedraw)
          ~> (lastOp.op = "animationFrame" /\ lastOp.toRedraw = {})

\* an animation frame ran the callback of a connection made through a
\* conversion node, and drew a wire
C33_Witness ==
    /\ lastOp.op = "animationFrame"
    /\ lastOp.wired # {}
    /\ \E i \in 1..Len(lastOp.before.frames) :
          /\ ~lastOp.before.frames[i].notify
          /\ Len(lastOp.before.frames[i].redraw) = 3
          /\ SeqToSet(lastOp.before.frames[i].redraw) \subseteq SeqToSet(lastOp.drawn)

\* an end of the link is a pin without an element in the document
HasDetachedEnd(ns, detached, l) ==
    \/ ~HasPin(ns, l.startPin) \/ l.startPin.node \in detached
    \/ ~HasPin(ns, l.endPin) \/ l.endPin.node \in detached

\* the links the step called drawWire for
DrawnLinks ==
    IF lastOp.op = "drawAllWires" THEN lastOp.before.links
    ELSE SelectSeq(lastOp.before.links,
                   LAMBDA l : l.startPin.node \in SeqToSet(lastOp.drawn)
                              \/ l.endPin.node \in SeqToSet(lastOp.drawn))

OnSomePin(ns, linkId) ==
    \E i \in 1..Len(ns) : \E j \in 1..Len(ns[i].pins) :
        \E k \in 1..Len(ns[i].pins[j].links) : ns[i].pins[j].links[k] = linkId

\* C34: a link that drawWire is called for while one of its end pins has no
\* element in the document is broken: it is gone from the link collection
\* and from the links list of every pin; and after drawAllWires no link with
\* such an end is left.
C34_DrawingBreaksDetachedLinks ==
    lastOp.op \in {"drawAllWires", "animationFrame"} =>
        /\ \A i \in 1..Len(DrawnLinks) :
              HasDetachedEnd(lastOp.before.nodes, lastOp.before.detached, DrawnLinks[i]) =>
                  /\ DrawnLinks[i].id \notin LinkIds(links)
                  /\ ~OnSomePin(nodes, DrawnLinks[i].id)
        /\ lastOp.op = "drawAllWires" =>
              \A i \in 1..Len(links) : ~HasDetachedEnd(nodes, view.detached, links[i])

\* drawAllWires found a link with a detached end and one without
C34_Witness ==
    /\ lastOp.op = "drawAllWires"
    /\ links # <<>>
    /\ \E i \in 1..Len(lastOp.before.links) :
          HasDetachedEnd(lastOp.before.nodes, lastOp.before.detached, lastOp.before.links[i])

OutputPins(ns) == { ref \in AllPinRefs(ns) : findPinById(ns, ref).dir = "out" }
InputPins(ns) == { ref \in AllPinRefs(ns) : findPinById(ns, ref).dir = "in" }

\* the links of ls that are not links of old
NewLinks(ls, old) == { ls[i] : i \in { j \in 1..Len(ls) : ls[j] \notin SeqToSet(old) } }

\* C35: for an output pin p and an input pin q of the graph,
\* createConnection(p, q) and createConnection(q, p) leave the same graph: the
\* same nodes with the same links lists on their pins and the same links, of
\* which a new one starts at p and a new one ends at q.
C35_ArgumentOrderDoesNotMatter ==
    \A p \in OutputPins(nodes), q \in InputPins(nodes) :
        \E pq \in {createConnection(Graph, p, q)}, qp \in {createConnection(Graph, q, p)} :
            /\ pq = qp
            /\ \E l \in NewLinks(qp.links, links) : l.startPin = p
            /\ \E l \in NewLinks(qp.links, links) : l.endPin = q

\* a graph with an output pin and a connected input pin of another type,
\* where createConnection(q, p) replaces the link at q and inserts a
\* conversion node
C35_Witness ==
    \E p \in OutputPins(nodes), q \in InputPins(nodes) :
        /\ isConnected(findPinById(nodes, q))
        /\ findPinById(nodes, p).type # findPinById(nodes, q).type
        /\ \E qp \in {createConnection(Graph, q, p)} :
              /\ Len(qp.nodes) = Len(nodes) + 1
              /\ Cardinality(NewLinks(qp.links, links)) = 2

\* C36: after duplicateSelectedNodes on a selection that is not empty, the
\* selected nodes are exactly the copies it made, one of each node that was
\* selected and of the same template key; none of the nodes that were
\* selected is selected, and no link is selected.
C36_SelectionBecomesTheCopies ==
    (Duplicated /\ lastOp.sel # {}) =>
        /\ selectedNodes \subseteq lastOp.addedNodes
        /\ selectedNodes \cap lastOp.sel = {}
        /\ view.selectedLinks = {}
        /\ \E f \in [lastOp.sel -> selectedNodes] :
              /\ \A x, y \in lastOp.sel : f[x] = f[y] => x = y
              /\ \A c \in selectedNodes : \E x \in lastOp.sel : f[x] = c
              /\ \A x \in lastOp.sel : NodeOfId(f[x]).nodeKey = NodeOfId(x).nodeKey

\* addNode was called with a singleton key that has an instance, and returned null
RejectedSingleton ==
    /\ lastOp.op = "addNode"
    /\ lastOp.node = 0
    /\ HasTemplate(lastOp.key)
    /\ Registry[lastOp.key].isSingleton

\* C37: an addNode that is rejected because its singleton key has an instance
\* leaves the nodes, the links and the set of selected nodes as they were.
C37_RejectedAddNodeChangesNothing ==
    RejectedSingleton => (~lastOp.changed /\ selectedNodes = lastOp.sel)

\* C38: in every reachable state every selected identifier is the identifier
\* of a node of the graph.
C38_SelectedNodesAreLive ==
    selectedNodes \subseteq NodeIds(nodes)

\* C39: in every reachable state every identifier in the links list of a pin
\* is the identifier of a link of the link collection that starts or ends at
\* that pin.
C39_PinsListOnlyTheirLinks ==
    \A i \in 1..Len(nodes) : \A j \in 1..Len(nodes[i].pins) :
        \A k \in 1..Len(nodes[i].pins[j].links) :
            \E n \in 1..Len(links) :
                /\ links[n].id = nodes[i].pins[j].links[k]
                /\ PinRef(nodes[i].id, nodes[i].pins[j].id) \in {links[n].startPin, links[n].endPin}

\* C40: duplicateSelectedNodes called while no node is selected adds no node
\* and no link, removes no link, whether or not a link is selected, and does
\* not fault.
C40_DuplicateOfNothingIsNoOp ==
    (Duplicated /\ lastOp.sel = {}) =>
        /\ lastOp.addedNodes = {}
        /\ lastOp.addedLinks = {}
        /\ lastOp.removedLinks = {}
        /\ ~lastOp.changed
        /\ ~lastOp.fault

====
